---- MODULE Spec2Model ----
(***************************************************************************)
(* Model of the Aura reactive runtime (src/src/runtime/signal.ts) and of   *)
(* the compiler driver (src/src/compiler/ast.ts, Compiler.compile) with    *)
(* the semantic analyzer it calls.                                         *)
(*                                                                         *)
(* The runtime is synchronous and single threaded.  It is modelled as a    *)
(* small-step interpreter over an explicit call stack: the bottom frame is *)
(* the user's script, the frames above it are running effect bodies and    *)
(* the forEach loops of notify() and batch().                              *)
(*                                                                         *)
(* A JavaScript Set iterates in insertion order; an element deleted and    *)
(* added again during forEach is appended and is visited again             *)
(* (ECMAScript Set.prototype.forEach).  Subscriber sets are therefore      *)
(* sequences without duplicates, and every running forEach keeps the       *)
(* number of entries it has already passed.                                *)
(***************************************************************************)
EXTENDS Integers, Sequences, FiniteSets, TLC

\* ------------------------------------------------------------------ bounds
MaxBatch == 2       \* batches the script nests
MaxRuns == 2        \* the run counter of an effect saturates here
MaxUserEffects == 1 \* effects the script creates with createEffect
MaxInvoked == 2     \* the count of calls of a cleanup closure saturates here

\* ------------------------------------------------------- values and names
Null == "null"                 \* currentEffect = null
Undefined == 0 - 1             \* createSignal<T>(undefined as T)
Vals == {0, 1}                 \* values the script writes to a and b
Signals == {"a", "b", "c"}     \* c is the backing signal of the computed
UserSignals == {"a", "b"}
UserEffects == {"eAB", "eG", "eU"}
LifeEffects == {"eAB", "eU", "eC", "eD", "eW", "eS"}
Effects == UserEffects \cup LifeEffects \cup {"cEff"}

Op(o, s, v) == [op |-> o, s |-> s, v |-> v]

\* The closures passed to createEffect / createComputed, as op sequences.
\*   eAB : () => { a(); b(); return () => {} }     (returns a cleanup)
\*   eG  : () => { a(); c.peek() }
\*   eU  : () => { untrack(() => { if (b() === 1) throw ...}); a() }
\*   cEff: () => { setSignal(a() + b()) }           (createComputed)
\*   eC  : () => { a(); c() }
\*   eD  : () => { if (a() === 0) b() }
\*   eW  : () => { a(); a.set(1); batch(() => { a.set(0) }) }
\*   eS  : () => { if (a() === 1) stop(); b() }     (stop is its disposer)
Body(e) ==
  CASE e = "eAB"  -> << Op("read", "a", 0), Op("read", "b", 0) >>
    [] e = "eG"   -> << Op("read", "a", 0), Op("peek", "c", 0) >>
    [] e = "eU"   -> << Op("untrack", "-", 0), Op("read", "b", 0),
                        Op("throwIf", "b", 1), Op("end", "-", 0),
                        Op("read", "a", 0) >>
    [] e = "cEff" -> << Op("read", "a", 0), Op("read", "b", 0),
                        Op("write", "c", 0) >>
    [] e = "eC"   -> << Op("read", "a", 0), Op("read", "c", 0) >>
    [] e = "eD"   -> << Op("read", "a", 0), Op("if", "a", 0),
                        Op("read", "b", 0) >>
    [] e = "eW"   -> << Op("read", "a", 0), Op("set", "a", 1),
                        Op("batch", "-", 0), Op("set", "a", 0),
                        Op("end", "-", 0) >>
    [] e = "eS"   -> << Op("read", "a", 0), Op("if", "a", 1),
                        Op("stop", "eS", 0), Op("read", "b", 0) >>

\* typeof result === 'function'
ReturnsCleanup(e) == e = "eAB"

\* What the script may call.
UserOps ==
  {Op("set", s, v) : s \in UserSignals, v \in Vals}
    \cup {Op("read", "c", 0)}
    \cup {Op(o, "-", 0) : o \in {"batch", "untrack", "root", "end", "throw",
                                 "createComputed", "dispose"}}
    \cup {Op("createEffect", e, 0) : e \in UserEffects \cup LifeEffects}
    \cup {Op("stop", e, 0) : e \in LifeEffects}

VARIABLES
  val,            \* SignalNode.value
  subs,           \* SignalNode.subscribers (insertion ordered)
  deps,           \* Effect.dependencies
  isRunning,      \* Effect.isRunning
  cleanup,        \* Effect.cleanup is set
  currentEffect,  \* module variable currentEffect
  effectStack,    \* module variable effectStack
  batchDepth,     \* module variable batchDepth
  pending,        \* module variable pendingEffects (insertion ordered)
  rootEffects,    \* the array `effects` of createRoot
  stack,          \* call stack of the interpreter
  exc,            \* an exception is propagating
  created,        \* effects that have been constructed
  \* ---- observation of the run (history variables)
  runs,           \* body executions of each effect in the current call
  seen,           \* values read so far by the running body of each effect
  lastOp,         \* the step just taken
  call,           \* the call the script made from the top level
  rootMade,       \* effects created in the createRoot callback before dispose
  rootState,      \* "none", "made" (createRoot called) or "disposed"
  disposed,       \* effects whose disposer has been called
  invoked,        \* calls so far of the closure held by Effect.cleanup
  tracked         \* signals the latest run of each effect read with tracking

rt == <<val, subs, deps, isRunning, cleanup, currentEffect, effectStack,
        batchDepth, pending, rootEffects, stack, exc, created>>
obs == <<runs, seen, lastOp, call, rootMade, rootState, disposed, invoked,
         tracked>>

\* Compiler.compile: its arguments and its locals
VARIABLES
  source,         \* what the source text lexes and parses to
  options,        \* CompileOptions
  comp            \* position in compile, errors, warnings, ast and code
\* Lexer and Parser: the fields of one instance of each
VARIABLES
  lex,            \* Lexer: input, position, indentStack, tokens, errors
  par             \* Parser: tokens, current, errors and the nodes built
\* Formatter (cli/formatter.ts)
VARIABLES
  fmt             \* the source given to format and what its calls returned
cvars == <<source, options, comp, lex, par, fmt>>
vars == <<rt, obs, cvars>>

\* ----------------------------------------------------------------- helpers
Min(x, y) == IF x < y THEN x ELSE y
Has(seq, x) == \E i \in 1..Len(seq) : seq[i] = x
Pos(seq, x) == IF Has(seq, x) THEN CHOOSE i \in 1..Len(seq) : seq[i] = x ELSE 0
Remove(seq, x) == SelectSeq(seq, LAMBDA y : y # x)
SetAdd(seq, x) == IF Has(seq, x) THEN seq ELSE Append(seq, x)
\* As if pendingEffects were an array: an effect is queued once per write.
SetAddAllDup(seq, more) == seq \o more
RECURSIVE SetAddAll(_, _)
SetAddAll(seq, more) ==
  IF more = <<>> THEN seq ELSE SetAddAll(SetAdd(seq, Head(more)), Tail(more))

Frame(k, e, pc, prev, cause) ==
  [k |-> k, e |-> e, pc |-> pc, prev |-> prev, scopes |-> <<>>,
   s |-> "-", idx |-> 0, effs |-> <<>>, thrown |-> FALSE, cause |-> cause]
UserFrame == Frame("user", Null, 0, Null, "-")
NotifyFrame(s) == [Frame("notify", Null, 0, Null, "-") EXCEPT !.s = s]
FlushFrame(effs, thrown) ==
  [Frame("flush", Null, 0, Null, "-") EXCEPT !.effs = effs, !.thrown = thrown]
Scope(k, prev) == [k |-> k, prev |-> prev]

Top == stack[Len(stack)]
Below == SubSeq(stack, 1, Len(stack) - 1)
IsCode(f) == f.k = "user" \/ (f.k = "effect" /\ f.pc <= Len(Body(f.e)))
AtTopLevel == Len(stack) = 1 /\ Top.scopes = <<>>
InRoot == \E i \in 1..Len(Top.scopes) : Top.scopes[i].k = "root"
\* The shape of the script: batches nest in batches, untrack is called
\* from the top level or from a batch, createRoot from the top level, and
\* effects are created at the top level or in the callback of createRoot.
AllBatch == \A i \in 1..Len(Top.scopes) : Top.scopes[i].k = "batch"
MayBatch == Top.k = "effect" \/ (AllBatch /\ Len(Top.scopes) < MaxBatch)
MayUntrack == Top.k = "effect" \/ AllBatch
MayRoot == Top.k = "user" /\ Top.scopes = <<>>
MayCreate == Top.k = "user" /\ (Top.scopes = <<>> \/ InRoot)
\* c is the value createComputed returns: code that names c runs after it.
Names(o) == IF o.s \in {"c", "eG", "eC"} THEN {"cEff"} ELSE {}

\* The ops the running code may execute next.
CurOps ==
  IF exc \/ ~IsCode(Top) THEN {}
  ELSE IF Top.k = "user" THEN UserOps
  ELSE {Body(Top.e)[Top.pc]}

\* The running frame after it has executed its current op.
Advanced(f) == IF f.k = "effect" THEN [f EXCEPT !.pc = @ + 1] ELSE f
Rest == Append(Below, Advanced(Top))

Zero == [e \in Effects |-> 0]
RunsBase == IF AtTopLevel THEN Zero ELSE runs
\* The call the script makes from the top level, the signals whose value
\* it changed and, for a batch, whether something threw.
CallBase(o) ==
  IF AtTopLevel
    THEN [op |-> IF o.op \in {"set", "batch"} THEN o.op ELSE "other",
          changed |-> {}, threw |-> FALSE]
    ELSE call
Changed(c, s) ==
  IF c.op \in {"batch", "set"} THEN [c EXCEPT !.changed = @ \cup {s}] ELSE c
Threw(c, b) == IF c.op = "batch" THEN [c EXCEPT !.threw = @ \/ b] ELSE c
\* The step just taken: reads, peeks, writes and batch exits are told apart.
Last(o, s, v) ==
  IF o \in {"read", "peek", "set", "setSame", "batchExit", "stop"}
    THEN [op |-> o, s |-> s, v |-> v]
    ELSE [op |-> "other", s |-> "-", v |-> 0]

\* No compilation is going on while the runtime is exercised.
NoSource == [lexerErrors |-> 0, parserErrors |-> 0,
             program |-> [components |-> <<>>, spaces |-> <<>>]]
Idle == [pc |-> "idle", errors |-> <<>>, warnings |-> <<>>, code |-> <<>>,
         ast |-> <<>>, ran |-> {}]
\* No Lexer and no Parser has been constructed.
NoLexer == [pc |-> "idle"]
NoParser == [pc |-> "idle"]
\* Nothing is being formatted.
NoFormatter == [pc |-> "idle"]

\* -------------------------------------------------------------------- Init
Init ==
  /\ val = [s \in Signals |-> IF s = "c" THEN Undefined ELSE 0]
  /\ subs = [s \in Signals |-> <<>>]
  /\ deps = [e \in Effects |-> {}]
  /\ isRunning = [e \in Effects |-> FALSE]
  /\ cleanup = [e \in Effects |-> FALSE]
  /\ currentEffect = Null
  /\ effectStack = <<>>
  /\ batchDepth = 0
  /\ pending = <<>>
  /\ rootEffects = <<>>
  /\ stack = <<UserFrame>>
  /\ exc = FALSE
  /\ created = {}
  /\ runs = Zero
  /\ seen = [e \in Effects |-> <<>>]
  /\ lastOp = Last("init", "-", 0)
  /\ call = [op |-> "other", changed |-> {}, threw |-> FALSE]
  /\ rootMade = {}
  /\ rootState = "none"
  /\ disposed = {}
  /\ invoked = [e \in Effects |-> 0]
  /\ tracked = [e \in Effects |-> {}]
  /\ source = NoSource
  /\ options = [strict |-> FALSE, explain |-> FALSE]
  /\ comp = Idle
  /\ lex = NoLexer
  /\ par = NoParser
  /\ fmt = NoFormatter

\* ------------------------------------------------- SignalNode.unsubscribe
\* subscribers.delete(e) on every signal in ds.  A forEach that has already
\* passed the deleted entry has one entry less behind it.
\* As if unsubscribe deleted nothing.
UnsubscribedNever(sb, e, ds) == sb
Unsubscribed(sb, e, ds) ==
  [s \in Signals |-> IF s \in ds THEN Remove(sb[s], e) ELSE sb[s]]
AdjustFrame(f, sb, e, ds) ==
  IF f.k = "notify" /\ f.s \in ds /\ Pos(sb[f.s], e) # 0
       /\ Pos(sb[f.s], e) <= f.idx
    THEN [f EXCEPT !.idx = @ - 1]
    ELSE f
Adjusted(stk, sb, e, ds) ==
  [i \in 1..Len(stk) |-> AdjustFrame(stk[i], sb, e, ds)]

\* --------------------------------------------------------- Effect.execute
\* Everything up to the call of this.fn(); stk is the caller's stack.
\* As if execute had no re-entrancy guard.
GuardedNever(e) == FALSE
Guarded(e) == isRunning[e]                 \* if (this.isRunning) return
\* this.cleanup?.(), counted
Invoked(e) ==
  IF cleanup[e] THEN [invoked EXCEPT ![e] = Min(@ + 1, MaxInvoked)]
                ELSE invoked
\* As if execute kept the dependencies of the previous run.
ClearedNever(d, e) == d
Cleared(d, e) == [d EXCEPT ![e] = {}]      \* this.dependencies.clear()
Execute(e, cause, stk) ==
  IF Guarded(e)
    THEN /\ stack' = stk
         /\ runs' = RunsBase
         /\ UNCHANGED <<subs, deps, isRunning, cleanup, currentEffect,
                        effectStack, seen, invoked, tracked>>
    ELSE /\ invoked' = Invoked(e)
         /\ cleanup' = [cleanup EXCEPT ![e] = FALSE]
         /\ subs' = Unsubscribed(subs, e, deps[e])
         /\ deps' = Cleared(deps, e)
         /\ tracked' = [tracked EXCEPT ![e] = {}]
         /\ stack' = Append(Adjusted(stk, subs, e, deps[e]),
                            Frame("effect", e, 1, currentEffect, cause))
         /\ currentEffect' = e
         /\ effectStack' = Append(effectStack, e)
         /\ isRunning' = [isRunning EXCEPT ![e] = TRUE]
         /\ runs' = [RunsBase EXCEPT ![e] = Min(@ + 1, MaxRuns)]
         /\ seen' = [seen EXCEPT ![e] = <<>>]

\* The finally block of Effect.execute, after the body returned.
EffectReturn ==
  /\ ~exc /\ Top.k = "effect" /\ Top.pc > Len(Body(Top.e))
  /\ cleanup' = [cleanup EXCEPT ![Top.e] = ReturnsCleanup(Top.e) \/ @]
  /\ invoked' = IF ReturnsCleanup(Top.e) THEN [invoked EXCEPT ![Top.e] = 0]
                                         ELSE invoked
  /\ isRunning' = [isRunning EXCEPT ![Top.e] = FALSE]
  /\ effectStack' = SubSeq(effectStack, 1, Len(effectStack) - 1)
  /\ currentEffect' = Top.prev
  /\ stack' = Below
  /\ seen' = [seen EXCEPT ![Top.e] = <<>>]
  /\ lastOp' = Last("return", Top.e, 0)
  /\ UNCHANGED <<val, subs, deps, batchDepth, pending, rootEffects, exc,
                 created, runs, call, rootMade, rootState, disposed, tracked>>
  /\ UNCHANGED cvars

\* ---------------------------------------------- SignalNode.get and .peek
Read ==
  \E o \in CurOps :
    /\ o.op = "read" /\ (Top.k = "user" => Names(o) \subseteq created)
    /\ subs' = IF currentEffect # Null
                 THEN [subs EXCEPT ![o.s] = SetAdd(@, currentEffect)]
                 ELSE subs
    /\ deps' = IF currentEffect # Null
                 THEN [deps EXCEPT ![currentEffect] = @ \cup {o.s}]
                 ELSE deps
    /\ tracked' = IF currentEffect # Null
                    THEN [tracked EXCEPT ![currentEffect] = @ \cup {o.s}]
                    ELSE tracked
    /\ stack' = Rest
    /\ seen' = IF Top.k = "effect"
                 THEN [seen EXCEPT ![Top.e] = Append(@, val[o.s])]
                 ELSE seen
    /\ lastOp' = Last("read", o.s, val[o.s])
    /\ call' = CallBase(o)
    /\ runs' = RunsBase
    /\ UNCHANGED <<val, isRunning, cleanup, currentEffect, effectStack,
                   batchDepth, pending, rootEffects, exc, created, rootMade,
                   rootState, disposed, invoked>>
    /\ UNCHANGED cvars

Peek ==
  \E o \in CurOps :
    /\ o.op = "peek"
    /\ stack' = Rest
    /\ seen' = IF Top.k = "effect"
                 THEN [seen EXCEPT ![Top.e] = Append(@, val[o.s])]
                 ELSE seen
    /\ lastOp' = Last("peek", o.s, val[o.s])
    /\ call' = CallBase(o)
    /\ runs' = RunsBase
    /\ UNCHANGED <<val, subs, deps, isRunning, cleanup, currentEffect,
                   effectStack, batchDepth, pending, rootEffects, exc,
                   created, rootMade, rootState, disposed, invoked, tracked>>
    /\ UNCHANGED cvars

\* ------------------------------------- SignalNode.set and first of notify
\* The computed's effect writes fn() = a() + b(), the two values it read.
WriteValue(o) ==
  IF o.op = "write" THEN seen[Top.e][1] + seen[Top.e][2] ELSE o.v
\* As if set() had no equality check.
SameValueNever(s, v) == FALSE
SameValue(s, v) == val[s] = v             \* Object.is(this.value, newValue)
Set ==
  \E o \in CurOps :
    /\ o.op \in {"set", "write"}
    /\ LET v == WriteValue(o) IN
         /\ lastOp' = Last(IF val[o.s] = v THEN "setSame" ELSE "set", o.s, v)
         /\ call' = IF val[o.s] = v THEN CallBase(o)
                                    ELSE Changed(CallBase(o), o.s)
         /\ IF SameValue(o.s, v)
              THEN /\ stack' = Rest
                   /\ UNCHANGED <<val, pending>>
              ELSE /\ val' = [val EXCEPT ![o.s] = v]
                   /\ IF batchDepth > 0
                        THEN /\ pending' = SetAddAll(pending, subs[o.s])
                             /\ stack' = Rest
                        ELSE /\ stack' = Append(Rest, NotifyFrame(o.s))
                             /\ UNCHANGED pending
    /\ runs' = RunsBase
    /\ UNCHANGED <<subs, deps, isRunning, cleanup, currentEffect,
                   effectStack, batchDepth, rootEffects, exc, created, seen,
                   rootMade, rootState, disposed, invoked, tracked>>
    /\ UNCHANGED cvars

\* this.subscribers.forEach(effect => effect.execute()), one entry
NotifyNext ==
  /\ ~exc /\ Top.k = "notify" /\ Top.idx < Len(subs[Top.s])
  /\ Execute(subs[Top.s][Top.idx + 1], "notify",
             Append(Below, [Top EXCEPT !.idx = @ + 1]))
  /\ lastOp' = Last("notify", Top.s, 0)
  /\ UNCHANGED <<val, batchDepth, pending, rootEffects, exc, created, call,
                 rootMade, rootState, disposed>>
  /\ UNCHANGED cvars

NotifyDone ==
  /\ ~exc /\ Top.k = "notify" /\ Top.idx >= Len(subs[Top.s])
  /\ stack' = Below
  /\ lastOp' = Last("notified", Top.s, 0)
  /\ UNCHANGED <<val, subs, deps, isRunning, cleanup, currentEffect,
                 effectStack, batchDepth, pending, rootEffects, exc, created,
                 runs, seen, call, rootMade, rootState, disposed, invoked, tracked>>
  /\ UNCHANGED cvars

\* ------------------------------------------ createEffect / createComputed
\* closures are the functions the script has at hand.
Creates(closures) ==
  \E o \in CurOps :
    /\ o.op = "createEffect" /\ MayCreate /\ Names(o) \subseteq created
    /\ o.s \in closures /\ o.s \notin created
    /\ Cardinality(created \ {"cEff"}) < MaxUserEffects
    /\ created' = created \cup {o.s}
    /\ Execute(o.s, "create", Rest)
    /\ lastOp' = Last("createEffect", o.s, 0)
    /\ call' = CallBase(o)
    /\ rootMade' = IF InRoot /\ rootState = "made"
                     THEN rootMade \cup {o.s} ELSE rootMade
    /\ UNCHANGED <<val, batchDepth, pending, rootEffects, exc, rootState,
                   disposed>>
    /\ UNCHANGED cvars
CreateEffect == Creates(UserEffects)

CreateComputed ==
  \E o \in CurOps :
    /\ o.op = "createComputed" /\ MayCreate
    /\ "cEff" \notin created
    /\ created' = created \cup {"cEff"}
    /\ Execute("cEff", "create", Rest)
    /\ lastOp' = Last("createComputed", "c", 0)
    /\ call' = CallBase(o)
    /\ rootMade' = IF InRoot /\ rootState = "made"
                     THEN rootMade \cup {"cEff"} ELSE rootMade
    /\ UNCHANGED <<val, batchDepth, pending, rootEffects, exc, rootState, disposed>>
    /\ UNCHANGED cvars

\* ---------------------------------------------------- callbacks (scopes)
\* batch, untrack and createRoot run a callback; the frame that called them
\* records the try block it is in, with what its finally restores.
Inner == Top.scopes[Len(Top.scopes)]
Entered(f, sc) == [f EXCEPT !.scopes = Append(@, sc)]
Left(f) == [f EXCEPT !.scopes = SubSeq(@, 1, Len(@) - 1)]

\* batch(fn): batchDepth++ and the call of fn
BatchEnter ==
  \E o \in CurOps :
    /\ o.op = "batch" /\ MayBatch
    /\ batchDepth' = batchDepth + 1
    /\ stack' = Append(Below, Entered(Advanced(Top), Scope("batch", Null)))
    /\ lastOp' = Last("batch", "-", 0)
    /\ call' = CallBase(o)
    /\ runs' = RunsBase
    /\ UNCHANGED <<val, subs, deps, isRunning, cleanup, currentEffect,
                   effectStack, pending, rootEffects, exc, created, seen,
                   rootMade, rootState, disposed, invoked, tracked>>
    /\ UNCHANGED cvars

\* The finally block of batch: batchDepth--, and at depth 0 the snapshot
\* Array.from(pendingEffects) and pendingEffects.clear().  thrown tells
\* whether the finally runs because fn threw.
\* As if every batch exit flushed, whatever the depth.
FlushesAlways(depth) == TRUE
FlushesAt(depth) == depth = 0
BatchFinally(stk, thrown) ==
  /\ batchDepth' = batchDepth - 1
  /\ IF FlushesAt(batchDepth - 1)
       THEN /\ pending' = <<>>
            /\ stack' = Append(stk, FlushFrame(pending, thrown))
            /\ exc' = FALSE
       ELSE /\ stack' = stk
            /\ UNCHANGED <<pending, exc>>

BatchExit ==
  \E o \in CurOps :
    /\ o.op = "end" /\ Top.scopes # <<>> /\ Inner.k = "batch"
    /\ BatchFinally(Append(Below, Left(Advanced(Top))), FALSE)
    /\ lastOp' = Last("batchExit", "-", 0)
    /\ UNCHANGED <<val, subs, deps, isRunning, cleanup, currentEffect,
                   effectStack, rootEffects, created, runs, seen, call,
                   rootMade, rootState, disposed, invoked, tracked>>
    /\ UNCHANGED cvars

\* effects.forEach(effect => effect.execute()) over the snapshot, one entry
FlushNext ==
  /\ ~exc /\ Top.k = "flush" /\ Top.idx < Len(Top.effs)
  /\ Execute(Top.effs[Top.idx + 1], "flush",
             Append(Below, [Top EXCEPT !.idx = @ + 1]))
  /\ lastOp' = Last("flush", "-", 0)
  /\ UNCHANGED <<val, batchDepth, pending, rootEffects, exc, created, call,
                 rootMade, rootState, disposed>>
  /\ UNCHANGED cvars

\* The flush is over; an exception thrown by fn goes on propagating.
FlushDone ==
  /\ ~exc /\ Top.k = "flush" /\ Top.idx >= Len(Top.effs)
  /\ stack' = Below
  /\ exc' = Top.thrown
  /\ lastOp' = Last("flushed", "-", 0)
  /\ UNCHANGED <<val, subs, deps, isRunning, cleanup, currentEffect,
                 effectStack, batchDepth, pending, rootEffects, created,
                 runs, seen, call, rootMade, rootState, disposed, invoked, tracked>>
  /\ UNCHANGED cvars

\* untrack(fn): currentEffect = null and the call of fn
UntrackEnter ==
  \E o \in CurOps :
    /\ o.op = "untrack" /\ MayUntrack
    /\ currentEffect' = Null
    /\ stack' = Append(Below,
                       Entered(Advanced(Top), Scope("untrack", currentEffect)))
    /\ lastOp' = Last("untrack", "-", 0)
    /\ call' = CallBase(o)
    /\ runs' = RunsBase
    /\ UNCHANGED <<val, subs, deps, isRunning, cleanup, effectStack,
                   batchDepth, pending, rootEffects, exc, created, seen,
                   rootMade, rootState, disposed, invoked, tracked>>
    /\ UNCHANGED cvars

\* The finally block of untrack and of createRoot.
\* As if the finally block left currentEffect at null.
RestoredNull(sc) == Null
Restored(sc) == sc.prev
UntrackExit ==
  \E o \in CurOps :
    /\ o.op = "end" /\ Top.scopes # <<>> /\ Inner.k = "untrack"
    /\ currentEffect' = Restored(Inner)
    /\ stack' = Append(Below, Left(Advanced(Top)))
    /\ lastOp' = Last("untrackExit", "-", 0)
    /\ UNCHANGED <<val, subs, deps, isRunning, cleanup, effectStack,
                   batchDepth, pending, rootEffects, exc, created, runs,
                   seen, call, rootMade, rootState, disposed, invoked, tracked>>
    /\ UNCHANGED cvars

\* createRoot(fn): a fresh empty array `effects`, currentEffect = null and
\* the call of fn(dispose).  Nothing in the runtime pushes to `effects`.
RootEnter ==
  \E o \in CurOps :
    /\ o.op = "root" /\ MayRoot /\ rootState = "none"
    /\ rootEffects' = <<>>
    /\ currentEffect' = Null
    /\ stack' = Append(Below,
                       Entered(Advanced(Top), Scope("root", currentEffect)))
    /\ rootState' = "made"
    /\ lastOp' = Last("root", "-", 0)
    /\ call' = CallBase(o)
    /\ runs' = RunsBase
    /\ UNCHANGED <<val, subs, deps, isRunning, cleanup, effectStack,
                   batchDepth, pending, exc, created, seen, rootMade,
                   disposed, invoked, tracked>>
    /\ UNCHANGED cvars

RootExit ==
  \E o \in CurOps :
    /\ o.op = "end" /\ Top.scopes # <<>> /\ Inner.k = "root"
    /\ currentEffect' = Restored(Inner)
    /\ stack' = Append(Below, Left(Advanced(Top)))
    /\ lastOp' = Last("rootExit", "-", 0)
    /\ UNCHANGED <<val, subs, deps, isRunning, cleanup, effectStack,
                   batchDepth, pending, rootEffects, exc, created, runs,
                   seen, call, rootMade, rootState, disposed, invoked, tracked>>
    /\ UNCHANGED cvars

\* ---------------------------------------------------------- Effect.dispose
\* cleanup?.() and the removal of the effect from every dependency; g is
\* the part of the state dispose works on.
DisposeOne(g, e) ==
  [subs  |-> Unsubscribed(g.subs, e, g.deps[e]),
   deps  |-> [g.deps EXCEPT ![e] = {}],
   stack |-> Adjusted(g.stack, g.subs, e, g.deps[e])]
RECURSIVE DisposeAll(_, _)
DisposeAll(g, es) ==
  IF es = <<>> THEN g ELSE DisposeAll(DisposeOne(g, Head(es)), Tail(es))

\* The dispose function createRoot hands to its callback:
\* effects.forEach(effect => effect.dispose()); effects.length = 0
RootDispose ==
  \E o \in CurOps :
    /\ o.op = "dispose" /\ rootState # "none"
    /\ LET g == DisposeAll([subs |-> subs, deps |-> deps, stack |-> Rest],
                           rootEffects)
       IN /\ subs' = g.subs
          /\ deps' = g.deps
          /\ stack' = g.stack
    /\ rootEffects' = <<>>
    /\ rootState' = "disposed"
    /\ lastOp' = Last("dispose", "-", 0)
    /\ call' = CallBase(o)
    /\ runs' = RunsBase
    /\ UNCHANGED <<val, isRunning, cleanup, currentEffect, effectStack,
                   batchDepth, pending, exc, created, seen, rootMade,
                   disposed, invoked, tracked>>
    /\ UNCHANGED cvars

\* ---------------------------------------------------------------- throwing
\* A callback of the script throws.
Throw ==
  \E o \in CurOps :
    /\ o.op = "throw" /\ Top.scopes # <<>>
    /\ exc' = TRUE
    /\ lastOp' = Last("throw", "-", 0)
    /\ call' = Threw(call, TRUE)
    /\ UNCHANGED <<val, subs, deps, isRunning, cleanup, currentEffect,
                   effectStack, batchDepth, pending, rootEffects, stack,
                   created, runs, seen, rootMade, rootState, disposed, invoked, tracked>>
    /\ UNCHANGED cvars

\* if (x === v) throw ..., on the value just read
ThrowIf ==
  \E o \in CurOps :
    /\ o.op = "throwIf"
    /\ exc' = (val[o.s] = o.v)
    /\ stack' = IF val[o.s] = o.v THEN stack ELSE Rest
    /\ lastOp' = Last("throwIf", o.s, val[o.s])
    /\ call' = Threw(call, val[o.s] = o.v)
    /\ UNCHANGED <<val, subs, deps, isRunning, cleanup, currentEffect,
                   effectStack, batchDepth, pending, rootEffects, created,
                   runs, seen, rootMade, rootState, disposed, invoked, tracked>>
    /\ UNCHANGED cvars

\* The exception leaves a try block of batch, untrack or createRoot.
UnwindBatch ==
  /\ exc /\ Top.k \in {"user", "effect"}
  /\ Top.scopes # <<>> /\ Inner.k = "batch"
  /\ BatchFinally(Append(Below, Left(Top)), TRUE)
  /\ lastOp' = Last("unwindBatch", "-", 0)
  /\ UNCHANGED <<val, subs, deps, isRunning, cleanup, currentEffect,
                 effectStack, rootEffects, created, runs, seen, call,
                 rootMade, rootState, disposed, invoked, tracked>>
  /\ UNCHANGED cvars

UnwindScope ==
  /\ exc /\ Top.k \in {"user", "effect"}
  /\ Top.scopes # <<>> /\ Inner.k \in {"untrack", "root"}
  /\ currentEffect' = Restored(Inner)
  /\ stack' = Append(Below, Left(Top))
  /\ lastOp' = Last("unwindScope", "-", 0)
  /\ UNCHANGED <<val, subs, deps, isRunning, cleanup, effectStack,
                 batchDepth, pending, rootEffects, exc, created, runs, seen,
                 call, rootMade, rootState, disposed, invoked, tracked>>
  /\ UNCHANGED cvars

\* The exception leaves Effect.execute through its finally block.
UnwindEffect ==
  /\ exc /\ Top.k = "effect" /\ Top.scopes = <<>>
  /\ isRunning' = [isRunning EXCEPT ![Top.e] = FALSE]
  /\ effectStack' = SubSeq(effectStack, 1, Len(effectStack) - 1)
  /\ currentEffect' = Top.prev
  /\ stack' = Below
  /\ seen' = [seen EXCEPT ![Top.e] = <<>>]
  /\ lastOp' = Last("unwindEffect", Top.e, 0)
  /\ UNCHANGED <<val, subs, deps, cleanup, batchDepth, pending, rootEffects,
                 exc, created, runs, call, rootMade, rootState, disposed, invoked, tracked>>
  /\ UNCHANGED cvars

\* The exception ends a forEach of notify or of batch.
UnwindLoop ==
  /\ exc /\ Top.k \in {"notify", "flush"}
  /\ stack' = Below
  /\ lastOp' = Last("unwindLoop", "-", 0)
  /\ UNCHANGED <<val, subs, deps, isRunning, cleanup, currentEffect,
                 effectStack, batchDepth, pending, rootEffects, exc, created,
                 runs, seen, call, rootMade, rootState, disposed, invoked, tracked>>
  /\ UNCHANGED cvars

\* The exception reaches the script, which catches it and goes on.
Caught ==
  /\ exc /\ Top.k = "user" /\ Top.scopes = <<>>
  /\ exc' = FALSE
  /\ lastOp' = Last("caught", "-", 0)
  /\ UNCHANGED <<val, subs, deps, isRunning, cleanup, currentEffect,
                 effectStack, batchDepth, pending, rootEffects, stack,
                 created, runs, seen, call, rootMade, rootState, disposed, invoked, tracked>>
  /\ UNCHANGED cvars

Next ==
  \/ Read \/ Peek \/ Set \/ NotifyNext \/ NotifyDone \/ EffectReturn
  \/ CreateEffect \/ CreateComputed
  \/ BatchEnter \/ BatchExit \/ FlushNext \/ FlushDone
  \/ UntrackEnter \/ UntrackExit \/ RootEnter \/ RootExit \/ RootDispose
  \/ Throw \/ ThrowIf
  \/ UnwindBatch \/ UnwindScope \/ UnwindEffect \/ UnwindLoop \/ Caught

Spec == Init /\ [][Next]_vars

\* ------------------------------------------------------ the life of effects
\* if (x === v) ..., on the value the body has just read
Branch ==
  \E o \in CurOps :
    /\ o.op = "if" /\ Top.k = "effect"
    /\ stack' = IF seen[Top.e][Len(seen[Top.e])] = o.v
                  THEN Rest
                  ELSE Append(Below, [Top EXCEPT !.pc = @ + 2])
    /\ lastOp' = Last("if", o.s, o.v)
    /\ UNCHANGED <<val, subs, deps, isRunning, cleanup, currentEffect,
                   effectStack, batchDepth, pending, rootEffects, exc,
                   created, runs, seen, call, rootMade, rootState, disposed,
                   invoked, tracked>>
    /\ UNCHANGED cvars

\* The disposer createEffect returns, () => effect.dispose(): the script
\* calls it from the top level or from a batch, eS from its own body.  The
\* variable that holds the disposer is assigned when createEffect returns:
\* eS calls it as stop?.(), which does nothing during the first run.
MayStop == Top.k = "effect" \/ AllBatch
Assigned == ~(Top.k = "effect" /\ Top.cause = "create")
\* dispose() calls this.cleanup and leaves it set.
Dispose ==
  \E o \in CurOps :
    /\ o.op = "stop" /\ MayStop /\ o.s \in created
    /\ IF Assigned
         THEN LET g == DisposeOne([subs |-> subs, deps |-> deps,
                                   stack |-> Rest], o.s)
              IN /\ invoked' = Invoked(o.s)
                 /\ UNCHANGED cleanup
                 /\ subs' = g.subs
                 /\ deps' = g.deps
                 /\ stack' = g.stack
                 /\ disposed' = disposed \cup {o.s}
         ELSE /\ stack' = Rest
              /\ UNCHANGED <<invoked, cleanup, subs, deps, disposed>>
    /\ lastOp' = Last("stop", o.s, 0)
    /\ call' = CallBase(o)
    /\ runs' = RunsBase
    /\ UNCHANGED <<val, isRunning, currentEffect, effectStack, batchDepth,
                   pending, rootEffects, exc, created, seen, rootMade,
                   rootState, tracked>>
    /\ UNCHANGED cvars

CreateLife == Creates(LifeEffects)

LifeNext ==
  \/ Read \/ Set \/ NotifyNext \/ NotifyDone \/ EffectReturn
  \/ CreateLife \/ CreateComputed
  \/ BatchEnter \/ BatchExit \/ FlushNext \/ FlushDone
  \/ UntrackEnter \/ UntrackExit \/ Branch \/ Dispose
  \/ ThrowIf \/ UnwindScope \/ UnwindEffect \/ UnwindLoop \/ Caught

LifeSpec == Init /\ [][LifeNext]_vars

\* ------------------------------------------- a call of set() runs to its end
\* The runtime is synchronous: once the script has called into it, the call
\* goes on step by step until it returns to the script.
CreatePlain == Creates({"eAB", "eC"})
SetNext ==
  \/ Read \/ Set \/ NotifyNext \/ NotifyDone \/ EffectReturn
  \/ CreatePlain \/ CreateComputed
Running == ~AtTopLevel /\ SetNext
SetSpec == Init /\ [][SetNext]_vars /\ WF_vars(Running)

\* ======================================================== runtime claims
UserCode == Len(stack) = 1 /\ ~exc
InUntrack == Top.scopes # <<>> /\ Inner.k = "untrack"
Subscribed(e, s) == Has(subs[s], e)

\* C1: with signal a initialised to 0 and the one effect eAB, whose body
\* reads a, a non-batched a.set(1) runs the body of eAB exactly once and
\* then returns: never a second run during the call, one run at its return.
C1_SetRunsEffectOnce ==
  (call.op = "set" /\ "a" \in call.changed /\ val["a"] = 1
     /\ created = {"eAB"})
    => /\ runs["eAB"] <= 1
       /\ (AtTopLevel /\ ~exc => runs["eAB"] = 1)

\* C2: a write of the value the signal already holds changes nothing, in
\* the idle, tracking and batching states alike: value, subscriber sets,
\* dependency sets and pending set stay as they are and no effect starts.
C2_SameValueSetIsNoOp ==
  [][lastOp'.op = "setSame"
       => /\ UNCHANGED <<val, subs, deps, pending, isRunning, effectStack,
                         currentEffect, batchDepth, cleanup>>
          /\ Len(stack') = Len(stack)]_vars
C2_Witness ==
  /\ lastOp.op = "setSame" /\ currentEffect = "cEff"
  /\ Subscribed("cEff", "a") /\ val["c"] = 1

\* C3: eAB reads a and b.  A batch called from the top level that changes
\* both runs the body of eAB not at all before the batch exits and exactly
\* once in all, the one run being part of the flush at the exit.
C3_BatchRunsEffectOnce ==
  (call.op = "batch" /\ "eAB" \in created /\ ~call.threw)
    => /\ (UserCode /\ Top.scopes # <<>> => runs["eAB"] = 0)
       /\ ({"a", "b"} \subseteq call.changed
             => /\ runs["eAB"] <= 1
                /\ (AtTopLevel /\ ~exc => runs["eAB"] = 1)
                /\ (runs["eAB"] = 1 => batchDepth = 0))
C3_Witness ==
  /\ call.op = "batch" /\ "eAB" \in created /\ ~call.threw
  /\ {"a", "b"} \subseteq call.changed
  /\ AtTopLevel /\ ~exc /\ runs["eAB"] = 1

\* C4: an effect run by the flush of a batch reads, for the computed
\* c = a + b, a value that reflects the writes of the batch: eG, which reads
\* a and then c, never sees c different from a + b.
C4_GlitchFree ==
  (Top.k = "effect" /\ Top.e = "eG" /\ Top.cause = "flush"
     /\ "cEff" \in created /\ Len(seen["eG"]) = 2)
    => seen["eG"][2] = val["a"] + val["b"]

\* C5: once the computed c = a + b exists, every read of c (tracked,
\* peek, inside untrack, inside or outside a batch) returns a + b.
C5_ComputedIsSum ==
  ("cEff" \in created /\ ~isRunning["cEff"]
     /\ lastOp.op \in {"read", "peek"} /\ lastOp.s = "c")
    => lastOp.v = val["a"] + val["b"]

\* C6: batches nest by depth.  No effect is started by a write or a flush
\* while batchDepth > 0; the exit of an inner batch leaves the pending set
\* alone and starts no flush; the outermost exit empties the pending set,
\* which is therefore empty whenever batchDepth is 0; and the script is back
\* at depth 0 after every batch, thrown out of or not.
StartsEffect ==
  /\ Len(stack') = Len(stack) + 1
  /\ stack'[Len(stack')].k = "effect"
  /\ stack'[Len(stack')].cause \in {"notify", "flush"}
C6_BatchNesting ==
  /\ [](batchDepth = 0 => pending = <<>>)
  /\ [](AtTopLevel => batchDepth = 0)
  /\ [][StartsEffect => batchDepth = 0]_vars
  /\ [][batchDepth' < batchDepth
          => IF batchDepth = 1
               THEN pending' = <<>> /\ stack'[Len(stack')].k = "flush"
               ELSE pending' = pending /\ Len(stack') = Len(stack)]_vars
C6_Witness ==
  lastOp.op = "batchExit" /\ batchDepth = 1 /\ pending # <<>>

\* C7: peek, and a read inside an untrack callback, add no subscription
\* edge; when untrack has returned or has been left by an exception the
\* enclosing effect is the current effect again, so eU, which reads b
\* inside untrack and a after it, ends with a as its one dependency.
C7_UntrackedReads ==
  /\ [][(lastOp'.op = "peek" \/ (lastOp'.op = "read" /\ InUntrack))
          => UNCHANGED <<subs, deps>>]_vars
  /\ [](Top.k = "effect" /\ Top.scopes = <<>> => currentEffect = Top.e)
  /\ [](Top.k = "user" /\ Top.scopes = <<>> => currentEffect = Null)
  /\ [](Top.k = "effect" /\ Top.e = "eU" /\ Top.pc > Len(Body("eU"))
          => deps["eU"] = {"a"} /\ ~Subscribed("eU", "b"))
C7_Witness ==
  /\ Top.k = "effect" /\ Top.e = "eU" /\ Top.pc > Len(Body("eU"))
  /\ deps["eU"] = {"a"} /\ val["b"] = 0 /\ Subscribed("eU", "a")

\* C8: once the dispose function of createRoot has been called, no effect
\* or computed created in the callback is subscribed to any signal.
C8_RootDisposes ==
  rootState = "disposed"
    => \A e \in rootMade :
         deps[e] = {} /\ \A s \in Signals : ~Subscribed(e, s)

\* ================================================================ compiler
\* Compiler.compile(source, options) runs lexer, parser, semantic analyzer
\* and code generator in this order.  A source is given by what the lexer
\* and the parser make of it: the errors each reports and the Program the
\* parser builds.
MaxComponents == 2  \* components of a Program
MaxSpaces == 1      \* spaces of a Program

NoAst == <<>>       \* ast is null / undefined; <<program>> otherwise

\* AST nodes (ast.ts): one record shape for ElementNode, TextNode,
\* ConditionalNode and LoopNode.
Node(type, tag, attributes, children, consequent, alternate, body) ==
  [type |-> type, tag |-> tag, attributes |-> attributes,
   children |-> children, consequent |-> consequent,
   alternate |-> alternate, body |-> body]
Element(tag, attributes, children) ==
  Node("ELEMENT", tag, attributes, children, <<>>, <<>>, <<>>)
Text == Node("TEXT", "", <<>>, <<>>, <<>>, <<>>, <<>>)
Conditional(consequent, alternate) ==
  Node("CONDITIONAL", "", <<>>, <<>>, consequent, alternate, <<>>)
Loop(body) == Node("LOOP", "", <<>>, <<>>, <<>>, <<>>, body)
Computed(name, dependencies) ==
  [name |-> name, dependencies |-> dependencies]
Component(states, computed, body, role, handlers) ==
  [states |-> states, computed |-> computed, effects |-> <<>>,
   handlers |-> handlers, animations |-> <<>>, styles |-> <<>>,
   body |-> body, accessibility |-> [role |-> role, label |-> FALSE]]
Space(states, computed) == [states |-> states, computed |-> computed]

Img == Element("img", <<>>, <<>>)
ImgAlt == Element("img", <<"src", "alt">>, <<>>)

\* The components and spaces the sources are made of.
ComponentSet ==
  { Component(<<"x">>, <<>>, <<ImgAlt>>, FALSE, <<>>),
    Component(<<"x", "x">>, <<>>, <<>>, FALSE, <<>>),
    Component(<<"x">>, <<Computed("x", <<>>)>>, <<>>, FALSE, <<>>),
    Component(<<>>, <<Computed("y", <<"x">>)>>, <<>>, FALSE, <<>>),
    Component(<<>>, <<>>, <<Img>>, FALSE, <<>>),
    Component(<<>>, <<>>, <<Element("div", <<>>, <<Img>>)>>, FALSE, <<>>),
    Component(<<>>, <<>>,
              <<Element("div", <<>>, <<Conditional(<<ImgAlt>>, <<Img>>)>>)>>,
              FALSE, <<>>),
    Component(<<>>, <<>>, <<Element("ul", <<>>, <<Loop(<<Img>>)>>)>>,
              FALSE, <<>>),
    Component(<<>>, <<>>, <<Element("button", <<>>, <<>>)>>, FALSE,
              <<"click">>),
    Component(<<"x", "y">>, <<>>, <<Element("button", <<>>, <<Text>>)>>,
              TRUE, <<>>),
    Component(<<>>, <<>>,
              <<Element("div", <<>>,
                        <<Conditional(<<Element("button", <<>>, <<Text>>)>>,
                                      <<>>)>>)>>,
              FALSE, <<>>),
    [Component(<<"x">>, <<>>, <<Element("button", <<"aria-label">>, <<>>)>>,
               TRUE, <<"click">>)
       EXCEPT !.effects = <<<<"x">>>>, !.animations = <<"click">>] }
SpaceSet == { Space(<<"x">>, <<>>), Space(<<"x", "x">>, <<>>) }

SeqsUpTo(S, n) == UNION {[1..k -> S] : k \in 0..n}
Programs ==
  {[components |-> cs, spaces |-> ss] :
     cs \in SeqsUpTo(ComponentSet, MaxComponents),
     ss \in SeqsUpTo(SpaceSet, MaxSpaces)}

\* A source with lexer errors is never parsed and one with parser errors is
\* never analyzed: the Program matters for clean sources only.
Sources ==
  {[lexerErrors |-> 1, parserErrors |-> 0, program |-> NoSource.program]}
    \cup {[lexerErrors |-> 0, parserErrors |-> 1, program |-> pr] :
            pr \in {q \in Programs : Len(q.components) + Len(q.spaces) <= 1}}
    \cup {[lexerErrors |-> 0, parserErrors |-> 0, program |-> pr] :
            pr \in Programs}

\* Parser.parse: { ast: components.length > 0 ? ast : null, errors }
ParsedAst(pr) == IF Len(pr.components) > 0 THEN <<pr>> ELSE NoAst

\* ------------------------------------------------------- SemanticAnalyzer
\* The analyzer's running result: errors, warnings, declaredVariables.
Res(errors, warnings, declared) ==
  [errors |-> errors, warnings |-> warnings, declared |-> declared]

RECURSIVE AnalyzeStates(_, _)
AnalyzeStates(states, r) ==
  IF states = <<>> THEN r
  ELSE AnalyzeStates(Tail(states),
         Res(IF Head(states) \in r.declared
               THEN Append(r.errors, "Duplicate state declaration")
               ELSE r.errors,
             r.warnings, r.declared \cup {Head(states)}))

Undeclared(dependencies, declared) ==
  SelectSeq(dependencies, LAMBDA d : d \notin declared)
RECURSIVE AnalyzeComputed(_, _)
AnalyzeComputed(computed, r) ==
  IF computed = <<>> THEN r
  ELSE LET c == Head(computed)
           declared == r.declared \cup {c.name}
       IN AnalyzeComputed(Tail(computed),
            Res(IF c.name \in r.declared
                  THEN Append(r.errors, "Duplicate computed declaration")
                  ELSE r.errors,
                r.warnings \o [i \in 1..Len(Undeclared(c.dependencies,
                                                       declared))
                                 |-> "undeclared variable"],
                declared))

\* the loop of analyzeComponent over the effects: one list of dependencies
\* per effect
RECURSIVE AnalyzeEffects(_, _)
AnalyzeEffects(effects, r) ==
  IF effects = <<>> THEN r
  ELSE AnalyzeEffects(Tail(effects),
         Res(r.errors,
             r.warnings \o [i \in 1..Len(Undeclared(Head(effects),
                                                    r.declared))
                              |-> "undeclared variable"],
             r.declared))

InteractiveTags == {"button", "input", "select", "textarea", "a"}
RECURSIVE HasInteractiveElements(_)
HasInteractiveElements(elements) ==
  \E i \in 1..Len(elements) :
    \/ elements[i].tag \in InteractiveTags
    \/ HasInteractiveElements(
         SelectSeq(elements[i].children, LAMBDA n : n.type = "ELEMENT"))

ValidateAccessibility(c, r) ==
  LET w1 == IF HasInteractiveElements(c.body) /\ ~c.accessibility.role
              THEN Append(r.warnings, "no role defined") ELSE r.warnings
      w2 == IF Len(c.handlers) > 0 /\ ~c.accessibility.label
              THEN Append(w1, "no aria-label") ELSE w1
  IN Res(r.errors, w2, r.declared)

HasAlt(element) ==
  \E i \in 1..Len(element.attributes) : element.attributes[i] = "alt"
Elements(nodes) == SelectSeq(nodes, LAMBDA n : n.type = "ELEMENT")

RECURSIVE AnalyzeElement(_, _)
RECURSIVE AnalyzeNodes(_, _)
\* analyzeElement; the parser never sets element.ariaLabel
AnalyzeElement(element, r) ==
  LET w == IF element.tag = "button"
                /\ ~\E i \in 1..Len(element.children) :
                      element.children[i].type = "TEXT"
             THEN Append(r.warnings, "Button without text content")
             ELSE r.warnings
      e == IF element.tag = "img" /\ ~HasAlt(element)
             THEN Append(r.errors, "Image element must have alt attribute")
             ELSE r.errors
  IN AnalyzeNodes(element.children, Res(e, w, r.declared))
\* the loops over children, and analyzeConditional / analyzeLoop, which
\* look at the elements of their branches only
AnalyzeNodes(nodes, r) ==
  IF nodes = <<>> THEN r
  ELSE LET n == Head(nodes)
           r1 == CASE n.type = "ELEMENT" -> AnalyzeElement(n, r)
                   [] n.type = "CONDITIONAL" ->
                        AnalyzeNodes(Elements(n.alternate),
                          AnalyzeNodes(Elements(n.consequent), r))
                   [] n.type = "LOOP" -> AnalyzeNodes(Elements(n.body), r)
                   [] OTHER -> r
       IN AnalyzeNodes(Tail(nodes), r1)

\* analyzeComponent: declaredVariables.clear() and the passes
AnalyzeComponent(c, r) ==
  LET r1 == AnalyzeStates(c.states, Res(r.errors, r.warnings, {}))
      r2 == AnalyzeComputed(c.computed, r1)
      r3 == AnalyzeEffects(c.effects, r2)
      r4 == ValidateAccessibility(c, r3)
  IN AnalyzeNodes(c.body, r4)

RECURSIVE AnalyzeComponents(_, _)
AnalyzeComponents(components, r) ==
  IF components = <<>> THEN r
  ELSE AnalyzeComponents(Tail(components),
                         AnalyzeComponent(Head(components), r))

\* analyze: for (const component of ast.components); spaces are not visited
Analyze(ast) == AnalyzeComponents(ast.components, Res(<<>>, <<>>, {}))

\* ---------------------------------------------------------- CodeGenerator
\* A line of the generated module: an import, the head of a createComponent
\* or createSpace block, or a call of the runtime with the shapes of its
\* arguments.
Line(emit) == [emit |-> emit, callee |-> "", args |-> <<>>]
Call(callee, args) == [emit |-> "call", callee |-> callee, args |-> args]
\* generateState: createSignal(${initialValue})
GenerateState(state) == Call("createSignal", <<"value">>)
\* generateComputed: createComputed(() => ${expression})
GenerateComputed(computed) == Call("createComputed", <<"function">>)
\* generateEffect: createEffect([${deps}], () => { ... })
GenerateEffect(effect) == Call("createEffect", <<"array", "function">>)
\* generateEventHandler: animationController.animate({ properties,
\* duration, easing }) when an animation has the event as its trigger
GenerateEventHandler(handler, animations) ==
  IF Has(animations, handler) THEN <<Call("animate", <<"object">>)>>
  ELSE <<>>
RECURSIVE Flat(_)
Flat(seqs) == IF seqs = <<>> THEN <<>> ELSE Head(seqs) \o Flat(Tail(seqs))
\* generateComponent: setup(props)
GenerateComponent(c) ==
  <<Line("component")>>
    \o [i \in 1..Len(c.states) |-> GenerateState(c.states[i])]
    \o [i \in 1..Len(c.computed) |-> GenerateComputed(c.computed[i])]
    \o [i \in 1..Len(c.effects) |-> GenerateEffect(c.effects[i])]
    \o Flat([i \in 1..Len(c.handlers) |->
               GenerateEventHandler(c.handlers[i], c.animations)])
\* generateStyles: the rules of all the styles in one injected block, if
\* there is a rule at all; a style is given by the number of its rules
GenerateStyles(styles) ==
  IF \E i \in 1..Len(styles) : styles[i] > 0 THEN <<Line("styles")>>
  ELSE <<>>
\* ast.styles && ast.styles.length > 0
Styles(ast) == IF "styles" \in DOMAIN ast THEN ast.styles ELSE <<>>
\* generate: the imports, then one block per component, then per space,
\* then the styles
Generate(ast) ==
  <<Line("import")>>
    \o Flat([i \in 1..Len(ast.components) |->
               GenerateComponent(ast.components[i])])
    \o [i \in 1..Len(ast.spaces) |-> Line("space")]
    \o GenerateStyles(Styles(ast))

\* ------------------------------------------------------- Compiler.compile
Many(n, x) == [i \in 1..n |-> x]
Return(c, ast) == [c EXCEPT !.pc = "done", !.code = <<>>, !.ast = ast]

\* if (errors.length > 0) return, after the lexer
LexStops(errors) == Len(errors) > 0
Tokenize ==
  /\ comp.pc = "start"
  /\ LET errors == Many(source.lexerErrors, "lexer")
         c == [comp EXCEPT !.errors = errors, !.ran = @ \cup {"lexer"}]
     IN comp' = IF LexStops(errors) THEN Return(c, NoAst)
                ELSE [c EXCEPT !.pc = "lexed"]
  /\ UNCHANGED <<source, options, lex, par, rt, obs, fmt>>

\* if (!ast || errors.length > 0) return, after the parser
ParseStops(ast, errors) == ast = NoAst \/ Len(errors) > 0
Parse ==
  /\ comp.pc = "lexed"
  /\ LET ast == ParsedAst(source.program)
         errors == comp.errors \o Many(source.parserErrors, "parser")
         c == [comp EXCEPT !.errors = errors, !.ran = @ \cup {"parser"}]
     IN comp' = IF ParseStops(ast, errors) THEN Return(c, NoAst)
                ELSE [c EXCEPT !.pc = "parsed", !.ast = ast]
  /\ UNCHANGED <<source, options, lex, par, rt, obs, fmt>>

\* if (options.strict) { analyze }; if (errors.length > 0) return
RunsAnalyzer(o) == o.strict
\* As if the errors of the analyzer did not stop the code generator.
SemanticNeverStops(errors) == FALSE
SemanticStops(errors) == Len(errors) > 0
Semantic ==
  /\ comp.pc = "parsed"
  /\ LET r == Analyze(comp.ast[1])
         c == IF RunsAnalyzer(options)
                THEN [comp EXCEPT !.errors = @ \o r.errors,
                                  !.warnings = @ \o r.warnings,
                                  !.ran = @ \cup {"semantic"}]
                ELSE comp
     IN comp' = IF SemanticStops(c.errors)
                  THEN Return(c, IF options.explain THEN comp.ast ELSE NoAst)
                  ELSE [c EXCEPT !.pc = "checked"]
  /\ UNCHANGED <<source, options, lex, par, rt, obs, fmt>>

\* codegen.generate(ast, ...) and the result
Codegen ==
  /\ comp.pc = "checked"
  /\ comp' = [comp EXCEPT !.pc = "done", !.code = Generate(comp.ast[1]),
                          !.ast = IF options.explain THEN comp.ast ELSE NoAst,
                          !.ran = @ \cup {"codegen"}]
  /\ UNCHANGED <<source, options, lex, par, rt, obs, fmt>>

CompileInit ==
  /\ val = [s \in Signals |-> IF s = "c" THEN Undefined ELSE 0]
  /\ subs = [s \in Signals |-> <<>>]
  /\ deps = [e \in Effects |-> {}]
  /\ isRunning = [e \in Effects |-> FALSE]
  /\ cleanup = [e \in Effects |-> FALSE]
  /\ currentEffect = Null
  /\ effectStack = <<>>
  /\ batchDepth = 0
  /\ pending = <<>>
  /\ rootEffects = <<>>
  /\ stack = <<UserFrame>>
  /\ exc = FALSE
  /\ created = {}
  /\ runs = Zero
  /\ seen = [e \in Effects |-> <<>>]
  /\ lastOp = Last("init", "-", 0)
  /\ call = [op |-> "other", changed |-> {}, threw |-> FALSE]
  /\ rootMade = {}
  /\ rootState = "none"
  /\ disposed = {}
  /\ invoked = [e \in Effects |-> 0]
  /\ tracked = [e \in Effects |-> {}]
  /\ source \in Sources
  /\ options \in [strict : BOOLEAN, explain : BOOLEAN]
  /\ comp = [Idle EXCEPT !.pc = "start"]
  /\ lex = NoLexer
  /\ par = NoParser
  /\ fmt = NoFormatter

CompileNext == Tokenize \/ Parse \/ Semantic \/ Codegen
CompileSpec == CompileInit /\ [][CompileNext]_vars

\* ======================================================= compiler claims
Clean == source.lexerErrors = 0 /\ source.parserErrors = 0

\* C9: when compile returns errors, the code is the empty string and the
\* code generator has not run; lexer errors stop the pipeline before the
\* parser and parser errors stop it before the semantic analyzer.
C9_ErrorsMeanNoCode ==
  /\ (comp.errors # <<>> => comp.code = <<>> /\ "codegen" \notin comp.ran)
  /\ (comp.errors # <<>> => comp.pc = "done")
  /\ (source.lexerErrors > 0 /\ comp.pc # "start"
        => comp.pc = "done" /\ comp.errors # <<>> /\ comp.ran = {"lexer"})
  /\ (source.parserErrors > 0 /\ comp.pc \notin {"start", "lexed"}
        => /\ comp.pc = "done" /\ comp.errors # <<>>
           /\ comp.ran \subseteq {"lexer", "parser"})
C9_Witness ==
  /\ comp.pc = "done" /\ Clean /\ "semantic" \in comp.ran
  /\ comp.errors # <<>> /\ comp.code = <<>>

\* C10: a source that lexes and parses cleanly and whose Program has a
\* semantic error (a duplicate state or computed, an img without alt)
\* compiles to empty code and a non-empty error list, strict or not.
RECURSIVE Duplicates(_)
Duplicates(names) ==
  names # <<>> /\ (\/ \E i \in 2..Len(names) : names[i] = Head(names)
                   \/ Duplicates(Tail(names)))
DeclaredNames(d) ==
  d.states \o [i \in 1..Len(d.computed) |-> d.computed[i].name]
SemanticErrorIn(pr) ==
  \/ \E i \in 1..Len(pr.components) :
       \/ Duplicates(DeclaredNames(pr.components[i]))
       \/ AnalyzeNodes(pr.components[i].body, Res(<<>>, <<>>, {})).errors
            # <<>>
  \/ \E i \in 1..Len(pr.spaces) : Duplicates(DeclaredNames(pr.spaces[i]))
C10_SemanticErrorsAreHard ==
  (comp.pc = "done" /\ Clean /\ SemanticErrorIn(source.program))
    => comp.code = <<>> /\ comp.errors # <<>>

\* =================================================================== words
\* The parser is exercised on the tokens the Lexer makes of a source.  A
\* source is taken word by word: a word is what one call of
\* readIdentifierOrKeyword, readNumber, readString or readOperator cuts out
\* of the input.
KEYWORDS ==
  [component |-> "COMPONENT", state |-> "STATE", computed |-> "COMPUTED",
   effect |-> "EFFECT", on |-> "ON", animate |-> "ANIMATE", when |-> "WHEN",
   each |-> "EACH", slot |-> "SLOT", emit |-> "EMIT", role |-> "ROLE",
   label |-> "LABEL", describe |-> "DESCRIBE", space |-> "SPACE",
   style |-> "STYLE", true |-> "BOOLEAN", false |-> "BOOLEAN"]
\* twoCharOps and singleCharOps of readOperator
Operators ==
  ("==" :> "EQ") @@ ("!=" :> "NE") @@ ("<=" :> "LE") @@ (">=" :> "GE")
    @@ ("&&" :> "AND") @@ ("||" :> "OR") @@ ("=>" :> "ARROW")
    @@ ("(" :> "LPAREN") @@ (")" :> "RPAREN") @@ ("[" :> "LBRACKET")
    @@ ("]" :> "RBRACKET") @@ (":" :> "COLON") @@ (";" :> "SEMICOLON")
    @@ ("," :> "COMMA") @@ ("." :> "DOT") @@ ("=" :> "EQUALS")
    @@ ("+" :> "PLUS") @@ ("-" :> "MINUS") @@ ("*" :> "STAR")
    @@ ("/" :> "SLASH") @@ ("!" :> "BANG") @@ ("<" :> "LT") @@ (">" :> "GT")
    @@ ("?" :> "QUESTION")
Numbers == {"1", "2", "3"}   \* words that start with a digit
Quoted == {"'s'"}            \* words that start with a quote
\* readString: the value of the token is what stands between the quotes
Unquoted == ("'s'" :> "s")
Token(type, value) == [type |-> type, value |-> value]
\* the dispatch of tokenize on the first character of the word
ReadWord(w) ==
  CASE w \in Numbers -> Token("NUMBER", w)
    [] w \in Quoted -> Token("STRING", Unquoted[w])
    [] w \in DOMAIN Operators -> Token(Operators[w], w)
    [] OTHER -> Token(IF w \in DOMAIN KEYWORDS THEN KEYWORDS[w]
                      ELSE "IDENTIFIER", w)
\* tokenize, then the filter of the Parser's constructor: NEWLINE, INDENT
\* and DEDENT are dropped, EOF ends the list.
TokensOf(words) ==
  [i \in 1..Len(words) |-> ReadWord(words[i])] \o <<Token("EOF", "")>>

\* ================================================================== parser
MaxDecls == 2    \* declarations of a source
MaxErrors == 4   \* parser errors that are told apart
MaxRules == 2    \* style rules that are told apart

\* A position of the parser: the cursor (tokens[current], counted from 1)
\* and the number of errors recorded so far.
PeekToken(p) == par.tokens[p.current]
IsAtEnd(p) == PeekToken(p).type = "EOF"
Check(p, type) == ~IsAtEnd(p) /\ PeekToken(p).type = type
CheckNext(p, type) ==
  p.current + 1 <= Len(par.tokens) /\ par.tokens[p.current + 1].type = type
Advance(p) == IF IsAtEnd(p) THEN p ELSE [p EXCEPT !.current = @ + 1]
Error(p) == [p EXCEPT !.errors = @ + 1]
Consume(p, type) == IF Check(p, type) THEN Advance(p) ELSE Error(p)
\* what a parse function returns, and where it leaves the parser
R(node, p) == [node |-> node, p |-> p]

\* synchronize
RECURSIVE SynchronizeLoop(_)
SynchronizeLoop(p) ==
  IF IsAtEnd(p) THEN p
  ELSE IF par.tokens[p.current - 1].type = "SEMICOLON" THEN p
  ELSE IF PeekToken(p).type \in {"COMPONENT", "SPACE", "STATE", "COMPUTED",
                            "EFFECT"} THEN p
  ELSE SynchronizeLoop(Advance(p))
Synchronize(p) == SynchronizeLoop(Advance(p))

\* ------------------------------------------------------------ expressions
Expr(type, operator, args) ==
  [type |-> type, operator |-> operator, args |-> args]

\* parseLogicalOr, parseLogicalAnd, parseEquality, parseComparison,
\* parseAdditive and parseMultiplicative are one loop each; level i parses
\* its operands with level i + 1 and the last level with parseUnary.
BinaryOperatorsSwapped ==
  << {"OR"}, {"AND"}, {"EQ", "NE"}, {"LT", "GT", "LE", "GE"},
     {"STAR", "SLASH"}, {"PLUS", "MINUS"} >>
BinaryOperators ==
  << {"OR"}, {"AND"}, {"EQ", "NE"}, {"LT", "GT", "LE", "GE"},
     {"PLUS", "MINUS"}, {"STAR", "SLASH"} >>

\* The value of a const declaration: v is computed once and named in F.
Bind(v, F(_)) == CHOOSE r \in {F(x) : x \in {v}} : TRUE

RECURSIVE ParseTernary(_)
RECURSIVE ParseBinary(_, _)
RECURSIVE BinaryLoop(_, _)
RECURSIVE ParseUnary(_)
RECURSIVE PostfixLoop(_)
RECURSIVE ParsePrimary(_)
RECURSIVE ParseArguments(_, _)

ParseExpression(p) == ParseTernary(p)
ParseLogicalOr(p) == ParseBinary(1, p)
ParseTernary(p) ==
  Bind(ParseLogicalOr(p), LAMBDA test :
    IF Check(test.p, "QUESTION")
      THEN Bind(ParseExpression(Advance(test.p)), LAMBDA consequent :
           Bind(ParseTernary(Consume(consequent.p, "COLON")),
                LAMBDA alternate :
             R(Expr("ConditionalExpression", "?",
                    <<test.node, consequent.node, alternate.node>>),
               alternate.p)))
      ELSE test)

Operand(level, p) ==
  IF level = Len(BinaryOperators) THEN ParseUnary(p)
  ELSE ParseBinary(level + 1, p)
ParseBinary(level, p) ==
  Bind(Operand(level, p), LAMBDA left : BinaryLoop(level, left))
\* while (this.match(...)) { right = operand(); left = binary(left, right) }
BinaryLoop(level, left) ==
  IF \E type \in BinaryOperators[level] : Check(left.p, type)
    THEN Bind(Operand(level, Advance(left.p)), LAMBDA right :
         Bind(R(Expr("BinaryExpression", PeekToken(left.p).value,
                     <<left.node, right.node>>), right.p),
              LAMBDA binary : BinaryLoop(level, binary)))
    ELSE left

ParsePostfix(p) ==
  Bind(ParsePrimary(p), LAMBDA primary : PostfixLoop(primary))
ParseUnary(p) ==
  IF Check(p, "BANG") \/ Check(p, "MINUS")
    THEN Bind(ParseUnary(Advance(p)), LAMBDA argument :
           R(Expr("UnaryExpression", PeekToken(p).value, <<argument.node>>),
             argument.p))
    ELSE ParsePostfix(p)

\* do { parseExpression() } while (match(COMMA))
ParseArguments(args, p) ==
  Bind(ParseExpression(p), LAMBDA x :
    IF Check(x.p, "COMMA")
      THEN Bind(Append(args, x.node), LAMBDA more :
             ParseArguments(more, Advance(x.p)))
      ELSE R(Append(args, x.node), x.p))
\* an argument list or an array literal, up to its closing token
ParseList(p, close) ==
  Bind(IF Check(p, close) THEN R(<<>>, p) ELSE ParseArguments(<<>>, p),
       LAMBDA list : R(list.node, Consume(list.p, close)))

PostfixLoop(e) ==
  IF Check(e.p, "DOT")
    THEN Bind(R(Expr("MemberExpression", ".",
                     <<e.node, Expr("Identifier",
                                    PeekToken(Advance(e.p)).value, <<>>)>>),
                Consume(Advance(e.p), "IDENTIFIER")),
              LAMBDA member : PostfixLoop(member))
  ELSE IF Check(e.p, "LBRACKET")
    THEN Bind(ParseExpression(Advance(e.p)), LAMBDA x :
         Bind(R(Expr("MemberExpression", "[]", <<e.node, x.node>>),
                Consume(x.p, "RBRACKET")),
              LAMBDA member : PostfixLoop(member)))
  ELSE IF Check(e.p, "LPAREN")
    THEN Bind(ParseList(Advance(e.p), "RPAREN"), LAMBDA list :
         Bind(R(Expr("CallExpression", "()", <<e.node>> \o list.node),
                list.p),
              LAMBDA called : PostfixLoop(called)))
  ELSE e

ParsePrimary(p) ==
  IF Check(p, "NUMBER") \/ Check(p, "STRING") \/ Check(p, "BOOLEAN")
    THEN R(Expr("Literal", PeekToken(p).value, <<>>), Advance(p))
  ELSE IF Check(p, "IDENTIFIER")
    THEN R(Expr("Identifier", PeekToken(p).value, <<>>), Advance(p))
  ELSE IF Check(p, "LBRACKET")
    THEN Bind(ParseList(Advance(p), "RBRACKET"), LAMBDA list :
           R(Expr("ArrayExpression", "[]", list.node), list.p))
  ELSE IF Check(p, "LPAREN")
    THEN Bind(ParseExpression(Advance(p)), LAMBDA x :
           R(x.node, Consume(x.p, "RPAREN")))
  ELSE R(Expr("Literal", "0", <<>>), Error(p))

\* extractDependencies: the identifiers of the expression, each once
RECURSIVE Walk(_)
RECURSIVE WalkAll(_)
WalkAll(nodes) ==
  IF nodes = <<>> THEN <<>> ELSE Walk(Head(nodes)) \o WalkAll(Tail(nodes))
Walk(node) ==
  CASE node.type = "Identifier" -> <<node.operator>>
    [] node.type = "BinaryExpression" -> WalkAll(node.args)
    [] node.type = "MemberExpression" -> Walk(node.args[1])
    [] node.type = "CallExpression" -> WalkAll(node.args)
    [] OTHER -> <<>>
ExtractDependencies(expr) == SetAddAll(<<>>, Walk(expr))

\* ----------------------------------------------------------- declarations
\* consume() returns the token it was asked for or, after an error, the
\* token under the cursor: in both cases the token at the old position.
\* parseState, after match(STATE)
ParseState(p) ==
  Bind(ParseExpression(Consume(Consume(p, "IDENTIFIER"), "EQUALS")),
       LAMBDA x : R(PeekToken(p).value, x.p))
\* parseComputed, after match(COMPUTED)
ParseComputed(p) ==
  Bind(ParseExpression(Consume(Consume(p, "IDENTIFIER"), "EQUALS")),
       LAMBDA x : R(Computed(PeekToken(p).value, ExtractDependencies(x.node)),
                    x.p))
\* do { consume(IDENTIFIER) } while (match(COMMA))
RECURSIVE ParseNames(_, _)
ParseNames(names, p) ==
  Bind(Append(names, PeekToken(p).value), LAMBDA more :
  Bind(Consume(p, "IDENTIFIER"), LAMBDA q :
    IF Check(q, "COMMA") THEN ParseNames(more, Advance(q)) ELSE R(more, q)))
ParseNameList(p) ==
  Bind(IF Check(p, "RPAREN") THEN R(<<>>, p) ELSE ParseNames(<<>>, p),
       LAMBDA n : R(n.node, Consume(n.p, "RPAREN")))
\* parseEffect, after match(EFFECT): the node is the dependency list
ParseEffect(p) ==
  Bind(ParseNameList(Consume(p, "LPAREN")),
       LAMBDA d : R(d.node, Consume(d.p, "ARROW")))
ParseArrowFunction(p) ==
  Bind(IF Check(p, "LPAREN") THEN ParseNameList(Advance(p)).p ELSE p,
       LAMBDA q : ParseExpression(q))
\* parseEventHandler, after match(ON): the node is the event name
ParseEventHandler(p) ==
  Bind(ParseArrowFunction(Consume(Consume(p, "IDENTIFIER"), "ARROW")),
       LAMBDA f : R(PeekToken(p).value, f.p))
\* while (!isAtEnd() && check(IDENTIFIER)) { ...; if (!match(COMMA)) break }
RECURSIVE AnimationProperties(_)
AnimationProperties(p) ==
  IF Check(p, "IDENTIFIER")
    THEN Bind(ParseExpression(Consume(Advance(p), "COLON")), LAMBDA x :
           IF Check(x.p, "COMMA") THEN AnimationProperties(Advance(x.p))
           ELSE x.p)
    ELSE p
\* parseAnimation, after match(ANIMATE): the node is the trigger
ParseAnimation(p) ==
  R(PeekToken(p).value,
    AnimationProperties(Consume(Consume(p, "IDENTIFIER"), "COLON")))
\* parseStringValue: the node says whether the value is a non-empty string
ParseStringValue(p) == R(PeekToken(p).value # "", Consume(p, "STRING"))

\* --------------------------------------------------------------- elements
Slot == Node("SLOT", "", <<>>, <<>>, <<>>, <<>>, <<>>)
IsAttributeName(token) ==
  token.type \in {"IDENTIFIER", "ROLE", "LABEL", "STYLE", "ON", "DESCRIBE",
                  "SLOT", "WHEN", "EACH", "ANIMATE", "SPACE"}

RECURSIVE ParseElement(_)
RECURSIVE ParseChildren(_, _)
RECURSIVE ParseAttributes(_, _)
RECURSIVE AttributeName(_, _)
\* while (match(MINUS)) { attrName += '-' ... }
AttributeName(name, p) ==
  IF Check(p, "MINUS")
    THEN IF IsAttributeName(PeekToken(Advance(p)))
           THEN Bind(R(name \o "-" \o PeekToken(Advance(p)).value,
                       Advance(Advance(p))),
                     LAMBDA n : AttributeName(n.node, n.p))
           ELSE Bind(R(name \o "-", Error(Advance(p))),
                     LAMBDA n : AttributeName(n.node, n.p))
    ELSE R(name, p)
\* while (isAttributeName(peek()) && !checkNext(COLON))
ParseAttributes(attributes, p) ==
  IF IsAttributeName(PeekToken(p)) /\ ~CheckNext(p, "COLON")
    THEN Bind(AttributeName(PeekToken(p).value, Advance(p)), LAMBDA n :
         Bind(ParseExpression(Consume(n.p, "EQUALS")), LAMBDA x :
         Bind(Append(attributes, n.node), LAMBDA more :
           ParseAttributes(more, x.p))))
    ELSE R(attributes, p)

\* the block of parseConditional and parseLoop: at most one element
ParseBlock(p) ==
  IF Check(p, "IDENTIFIER")
    THEN Bind(ParseElement(p), LAMBDA e : R(<<e.node>>, e.p))
    ELSE R(<<>>, p)
ParseConditional(p) ==
  Bind(ParseExpression(Consume(p, "IDENTIFIER")), LAMBDA c :
  Bind(ParseBlock(Consume(c.p, "COLON")), LAMBDA b :
    R(Conditional(b.node, <<>>), b.p)))
ParseLoop(p) ==
  Bind(ParseExpression(Consume(Consume(Consume(p, "IDENTIFIER"),
                                       "IDENTIFIER"), "IDENTIFIER")),
       LAMBDA x :
  Bind(ParseBlock(Consume(x.p, "COLON")), LAMBDA b : R(Loop(b.node), b.p)))
ParseSlot(p) == R(Slot, Consume(p, "IDENTIFIER"))

\* while (!isAtEnd() && check(IDENTIFIER)): dispatch on peek().value
ParseChildren(children, p) ==
  IF Check(p, "IDENTIFIER")
    THEN Bind(CASE PeekToken(p).value = "when" -> ParseConditional(p)
                [] PeekToken(p).value = "each" -> ParseLoop(p)
                [] PeekToken(p).value = "slot" -> ParseSlot(p)
                [] OTHER -> ParseElement(p),
              LAMBDA child :
         Bind(Append(children, child.node), LAMBDA more :
           ParseChildren(more, child.p)))
    ELSE R(children, p)
ParseElement(p) ==
  Bind(ParseAttributes(<<>>, Consume(p, "IDENTIFIER")), LAMBDA a :
  Bind(IF Check(a.p, "COLON")
         THEN IF Check(Advance(a.p), "STRING")
                THEN R(<<Text>>, Advance(Advance(a.p)))
                ELSE ParseChildren(<<>>, Advance(a.p))
         ELSE R(<<>>, a.p),
       LAMBDA c : R(Element(PeekToken(p).value, a.node, c.node), c.p)))

\* the properties of one style rule:
\* while (!isAtEnd() && check(IDENTIFIER))
RECURSIVE StyleProperties(_)
StyleProperties(p) ==
  IF Check(p, "IDENTIFIER")
    THEN Bind(Consume(Advance(p), "COLON"), LAMBDA q :
         Bind(IF Check(q, "STRING") \/ Check(q, "NUMBER")
                THEN Advance(q) ELSE ParseExpression(q).p,
              LAMBDA next : StyleProperties(next)))
    ELSE p

\* ------------------------------------------------------------ Parser.parse
\* The declarations the sources are made of, word by word.
Decl(words, valid) == [words |-> words, valid |-> valid]
DeclSet ==
  { Decl(<<"component", "C", ":", "state", "x", "=", "1">>, TRUE),
    Decl(<<"component", "C", ":", "div", ":", "'s'">>, TRUE),
    Decl(<<"component", "C", ":", "div", ":", "when", "x", ":", "p">>, TRUE),
    Decl(<<"component", "C", ":", "ul", ":", "each", "i", "in", "xs", ":",
           "li">>, TRUE),
    Decl(<<"component", "C", ":", "div", ":", "slot">>, TRUE),
    Decl(<<"component", "C", ":", "role", "'s'", "label", "'s'",
           "computed", "y", "=", "x", "+", "1",
           "effect", "(", "x", ")", "=>",
           "on", "click", "=>", "f", "(", ")",
           "animate", "click", ":", "opacity", ":", "1",
           "button", "aria", "-", "label", "=", "'s'">>, TRUE),
    Decl(<<"space", "S", ":", "state", "x", "=", "1",
           "computed", "y", "=", "x">>, TRUE),
    Decl(<<"style", ":", ".", "btn", ":", "color", ":", "'s'">>, TRUE),
    Decl(<<"style", ":", "1">>, FALSE),
    Decl(<<"div", ";">>, FALSE),
    Decl(<<"component", "C", "+">>, FALSE) }
RECURSIVE Words(_)
Words(decls) ==
  IF decls = <<>> THEN <<>> ELSE Head(decls).words \o Words(Tail(decls))

P == [current |-> par.current, errors |-> par.errors]
\* The parser after a step that leaves the cursor and the errors as in p.
Moved(p, last) ==
  [par EXCEPT !.current = p.current, !.errors = Min(p.errors, MaxErrors),
              !.last = last]

NewParser(decls) ==
  [pc |-> "top", source |-> decls, tokens |-> TokensOf(Words(decls)),
   current |-> 1, errors |-> 0, components |-> <<>>, spaces |-> <<>>,
   styles |-> <<>>, component |-> Component(<<>>, <<>>, <<>>, FALSE, <<>>),
   space |-> Space(<<>>, <<>>), rules |-> 0, ret |-> "top", ast |-> NoAst,
   last |-> "new"]

\* parse: if (check(COMPONENT)) parseComponent(), up to its loop
BeginComponent ==
  /\ par.pc = "top" /\ Check(P, "COMPONENT")
  /\ par' = [Moved(Consume(Consume(Advance(P), "IDENTIFIER"), "COLON"),
                   "top")
               EXCEPT !.pc = "component",
                      !.component = Component(<<>>, <<>>, <<>>, FALSE, <<>>)]
  /\ UNCHANGED <<source, options, comp, lex, rt, obs, fmt>>

\* parse: else if (check(SPACE)) parseSpace(), up to its loop
BeginSpace ==
  /\ par.pc = "top" /\ Check(P, "SPACE")
  /\ par' = [Moved(Consume(Consume(Advance(P), "IDENTIFIER"), "COLON"),
                   "top")
               EXCEPT !.pc = "space", !.space = Space(<<>>, <<>>)]
  /\ UNCHANGED <<source, options, comp, lex, rt, obs, fmt>>

\* parseStyle up to its loop, called by parse or by parseComponent
BeginStyle ==
  /\ par.pc \in {"top", "component"} /\ Check(P, "STYLE")
  /\ par' = [Moved(Consume(Advance(P), "COLON"), par.pc)
               EXCEPT !.pc = "style", !.ret = par.pc, !.rules = 0]
  /\ UNCHANGED <<source, options, comp, lex, rt, obs, fmt>>

\* parse: else { error(...); synchronize() }
Unexpected ==
  /\ par.pc = "top" /\ ~IsAtEnd(P)
  /\ ~Check(P, "COMPONENT") /\ ~Check(P, "SPACE") /\ ~Check(P, "STYLE")
  /\ par' = Moved(Synchronize(Error(P)), "top")
  /\ UNCHANGED <<source, options, comp, lex, rt, obs, fmt>>

\* one iteration of the loop of parseComponent (a style is BeginStyle)
ComponentItem ==
  /\ par.pc = "component"
  /\ ~IsAtEnd(P) /\ ~Check(P, "COMPONENT") /\ ~Check(P, "STYLE")
  /\ LET type == PeekToken(P).type
         c == par.component
         q == Advance(P)
         r == Bind(CASE type = "STATE" -> ParseState(q)
                     [] type = "COMPUTED" -> ParseComputed(q)
                     [] type = "EFFECT" -> ParseEffect(q)
                     [] type = "ON" -> ParseEventHandler(q)
                     [] type = "ANIMATE" -> ParseAnimation(q)
                     [] type \in {"ROLE", "LABEL", "DESCRIBE"} ->
                          ParseStringValue(q)
                     [] type = "IDENTIFIER" -> ParseElement(P)
                     [] OTHER -> R(0, q),
                   LAMBDA x : x)
     IN par' = [Moved(r.p, "component") EXCEPT !.component =
          CASE type = "STATE" -> [c EXCEPT !.states = Append(@, r.node)]
            [] type = "COMPUTED" -> [c EXCEPT !.computed = Append(@, r.node)]
            [] type = "EFFECT" -> [c EXCEPT !.effects = Append(@, r.node)]
            [] type = "ON" -> [c EXCEPT !.handlers = Append(@, r.node)]
            [] type = "ANIMATE" ->
                 [c EXCEPT !.animations = Append(@, r.node)]
            [] type = "ROLE" -> [c EXCEPT !.accessibility.role = r.node]
            [] type = "LABEL" -> [c EXCEPT !.accessibility.label = r.node]
            [] type = "IDENTIFIER" -> [c EXCEPT !.body = Append(@, r.node)]
            [] OTHER -> c]
  /\ UNCHANGED <<source, options, comp, lex, rt, obs, fmt>>

\* the loop of parseComponent ends; parse pushes the component
ComponentEnd ==
  /\ par.pc = "component" /\ (IsAtEnd(P) \/ Check(P, "COMPONENT"))
  /\ par' = [par EXCEPT !.pc = "top", !.last = "end",
                        !.components = Append(@, par.component)]
  /\ UNCHANGED <<source, options, comp, lex, rt, obs, fmt>>

\* one iteration of the loop of parseSpace; effects and handlers of a
\* space are parsed and not kept here
SpaceItem ==
  /\ par.pc = "space"
  /\ ~IsAtEnd(P) /\ ~Check(P, "COMPONENT") /\ ~Check(P, "SPACE")
  /\ LET type == PeekToken(P).type
         s == par.space
         q == Advance(P)
         r == CASE type = "STATE" -> ParseState(q)
                [] type = "COMPUTED" -> ParseComputed(q)
                [] type = "EFFECT" -> ParseEffect(q)
                [] type = "ON" -> ParseEventHandler(q)
                [] OTHER -> R(0, q)
     IN par' = [Moved(r.p, "space") EXCEPT !.space =
          CASE type = "STATE" -> [s EXCEPT !.states = Append(@, r.node)]
            [] type = "COMPUTED" -> [s EXCEPT !.computed = Append(@, r.node)]
            [] OTHER -> s]
  /\ UNCHANGED <<source, options, comp, lex, rt, obs, fmt>>

SpaceEnd ==
  /\ par.pc = "space"
  /\ (IsAtEnd(P) \/ Check(P, "COMPONENT") \/ Check(P, "SPACE"))
  /\ par' = [par EXCEPT !.pc = "top", !.last = "end",
                        !.spaces = Append(@, par.space)]
  /\ UNCHANGED <<source, options, comp, lex, rt, obs, fmt>>

\* one iteration of the outer loop of parseStyle: a selector, its
\* properties, rules.push
StyleRule ==
  /\ par.pc = "style"
  /\ ~IsAtEnd(P) /\ ~Check(P, "COMPONENT") /\ ~Check(P, "SPACE")
  /\ ~Check(P, "STYLE")
  /\ par' = [Moved(StyleProperties(
                     Consume(Consume(Consume(P, "DOT"), "IDENTIFIER"),
                             "COLON")), "style")
               EXCEPT !.rules = Min(@ + 1, MaxRules)]
  /\ UNCHANGED <<source, options, comp, lex, rt, obs, fmt>>

\* the loop of parseStyle ends; the caller pushes the style
StyleEnd ==
  /\ par.pc = "style"
  /\ (IsAtEnd(P) \/ Check(P, "COMPONENT") \/ Check(P, "SPACE")
        \/ Check(P, "STYLE"))
  /\ par' = IF par.ret = "top"
              THEN [par EXCEPT !.pc = "top", !.last = "end",
                               !.styles = Append(@, par.rules)]
              ELSE [par EXCEPT !.pc = "component", !.last = "end",
                               !.component.styles = Append(@, par.rules)]
  /\ UNCHANGED <<source, options, comp, lex, rt, obs, fmt>>

\* the loop of parse ends: return { ast, errors }
Finish ==
  /\ par.pc = "top" /\ IsAtEnd(P)
  /\ par' = [par EXCEPT !.pc = "done", !.last = "end", !.ast =
               ParsedAst([components |-> par.components,
                          spaces |-> par.spaces, styles |-> par.styles])]
  /\ UNCHANGED <<source, options, comp, lex, rt, obs, fmt>>

\* The runtime and the compiler are at rest while a Lexer or a Parser runs.
Quiet ==
  /\ val = [s \in Signals |-> IF s = "c" THEN Undefined ELSE 0]
  /\ subs = [s \in Signals |-> <<>>]
  /\ deps = [e \in Effects |-> {}]
  /\ isRunning = [e \in Effects |-> FALSE]
  /\ cleanup = [e \in Effects |-> FALSE]
  /\ currentEffect = Null
  /\ effectStack = <<>>
  /\ batchDepth = 0
  /\ pending = <<>>
  /\ rootEffects = <<>>
  /\ stack = <<UserFrame>>
  /\ exc = FALSE
  /\ created = {}
  /\ runs = Zero
  /\ seen = [e \in Effects |-> <<>>]
  /\ lastOp = Last("init", "-", 0)
  /\ call = [op |-> "other", changed |-> {}, threw |-> FALSE]
  /\ rootMade = {}
  /\ rootState = "none"
  /\ disposed = {}
  /\ invoked = [e \in Effects |-> 0]
  /\ tracked = [e \in Effects |-> {}]
  /\ source = NoSource
  /\ options = [strict |-> FALSE, explain |-> FALSE]
  /\ comp = Idle

ParseInit ==
  /\ Quiet
  /\ fmt = NoFormatter
  /\ lex = NoLexer
  /\ par \in {NewParser(decls) : decls \in SeqsUpTo(DeclSet, MaxDecls)}
ParseNext ==
  \/ BeginComponent \/ BeginSpace \/ BeginStyle \/ Unexpected
  \/ ComponentItem \/ ComponentEnd \/ SpaceItem \/ SpaceEnd
  \/ StyleRule \/ StyleEnd \/ Finish
ParseSpec == ParseInit /\ [][ParseNext]_vars

\* =========================================================== parser claims
\* C11: parse terminates on every token list that ends with EOF: every
\* iteration of the top-level loop, of the loops over a component body and
\* a space body, and of the loop over the rules of a style moves the cursor
\* forward by at least one token.
C11_LoopsAdvance ==
  [][par'.last # "end" => par'.current > par.current]_vars

\* =================================================================== lexer
\* Lexer.tokenize over an input of characters.  Of a token only the type is
\* kept.
MaxInput == 4    \* characters of an input

\* One character of each kind tokenize tells apart: newline, blank, tab,
\* letter, digit, quote, operator, comment sign, illegal character.
Chars == {"\n", " ", "\t", "a", "1", "'", ":", "#", "$"}
Letter == {"a"}
Digit == {"1"}
IsLetter(c) == c \in Letter
IsDigit(c) == c \in Digit
IsAlphanumeric(c) == IsLetter(c) \/ IsDigit(c)
IsQuote(c) == c \in {"'", "\""}

InputAt(i) == IF i <= Len(lex.input) THEN lex.input[i] ELSE ""
\* skipWhitespaceExceptNewline, from position i
RECURSIVE SkipWhitespaceExceptNewline(_)
SkipWhitespaceExceptNewline(i) ==
  IF InputAt(i) \in {" ", "\t", "\r"} THEN SkipWhitespaceExceptNewline(i + 1)
  ELSE i
\* The character tokenize dispatches on in this iteration, and its place.
Here == SkipWhitespaceExceptNewline(lex.position)
Char == InputAt(Here)

\* measureIndent, from position i: a blank counts 1 and a tab 4
RECURSIVE MeasureIndent(_, _)
MeasureIndent(i, indent) ==
  IF InputAt(i) = " " THEN MeasureIndent(i + 1, indent + 1)
  ELSE IF InputAt(i) = "\t" THEN MeasureIndent(i + 1, indent + 4)
  ELSE [position |-> i, indent |-> indent]

\* while (indentStack.length > 1 && top > indentLevel) indentStack.pop()
RECURSIVE Popped(_, _)
Popped(indentStack, indentLevel) ==
  IF Len(indentStack) > 1 /\ indentStack[Len(indentStack)] > indentLevel
    THEN Popped(SubSeq(indentStack, 1, Len(indentStack) - 1), indentLevel)
    ELSE indentStack
\* one DEDENT per pop
Dedents(n) == [i \in 1..n |-> "DEDENT"]
\* if (indentStack[indentStack.length - 1] !== indentLevel)
\* As if the lexer never reported a width that matches no level.
InconsistentNever(top, indentLevel) == FALSE
Inconsistent(top, indentLevel) == top # indentLevel
\* while (indentStack.length > 1) { pop(); addToken(DEDENT) }, at the end
\* As if the blocks still open at the end of the input were not closed.
ClosingDedentsNone(indentStack) == <<>>
ClosingDedents(indentStack) == Dedents(Len(indentStack) - 1)

\* the loops of readIdentifierOrKeyword and readNumber
RECURSIVE SkipWhile(_, _)
SkipWhile(i, class) ==
  IF InputAt(i) \in class THEN SkipWhile(i + 1, class) ELSE i
\* input.substring(start, position)
RECURSIVE Substring(_, _)
Substring(start, position) ==
  IF start >= position THEN ""
  ELSE InputAt(start) \o Substring(start + 1, position)
\* skipComment: up to the newline
RECURSIVE CommentEnd(_)
CommentEnd(i) ==
  IF i <= Len(lex.input) /\ InputAt(i) # "\n" THEN CommentEnd(i + 1) ELSE i
\* the loop of readString: the place after the closing quote, or that the
\* input ended first
RECURSIVE StringEnd(_, _, _)
StringEnd(i, quote, escaped) ==
  IF i > Len(lex.input) THEN [position |-> i, closed |-> FALSE]
  ELSE IF escaped THEN StringEnd(i + 1, quote, FALSE)
  ELSE IF InputAt(i) = "\\" THEN StringEnd(i + 1, quote, TRUE)
  ELSE IF InputAt(i) = quote THEN [position |-> i + 1, closed |-> TRUE]
  ELSE StringEnd(i + 1, quote, FALSE)

NewLexer(input) ==
  [pc |-> "scan", input |-> input, position |-> 1, indentStack |-> <<0>>,
   tokens |-> <<>>, errors |-> <<>>,
   last |-> [op |-> "new", indentLevel |-> 0, currentIndent |-> 0]]
\* The lexer after an iteration that is not handleNewline.
Scanned(position, tokens, errors) ==
  [lex EXCEPT !.position = position, !.tokens = @ \o tokens,
              !.errors = @ \o errors,
              !.last = [op |-> "token", indentLevel |-> 0,
                        currentIndent |-> 0]]

\* handleNewline
HandleNewline ==
  /\ lex.pc = "scan" /\ Char = "\n"
  /\ LET m == MeasureIndent(Here + 1, 0)
         currentIndent == lex.indentStack[Len(lex.indentStack)]
         newStack == IF m.indent > currentIndent
                    THEN Append(lex.indentStack, m.indent)
                  ELSE IF m.indent < currentIndent
                    THEN Popped(lex.indentStack, m.indent)
                  ELSE lex.indentStack
     IN lex' = [lex EXCEPT
          !.position = m.position,
          !.indentStack = newStack,
          !.tokens = @ \o <<"NEWLINE">>
                       \o (IF m.indent > currentIndent THEN <<"INDENT">>
                           ELSE Dedents(Len(lex.indentStack) - Len(newStack))),
          !.errors = IF m.indent < currentIndent
                          /\ Inconsistent(newStack[Len(newStack)], m.indent)
                       THEN Append(@, "Indentation error: inconsistent indentation") ELSE @,
          !.last = [op |-> "newline", indentLevel |-> m.indent,
                    currentIndent |-> currentIndent]]
  /\ UNCHANGED <<source, options, comp, par, rt, obs, fmt>>

SkipComment ==
  /\ lex.pc = "scan" /\ Char = "#"
  /\ lex' = Scanned(CommentEnd(Here), <<>>, <<>>)
  /\ UNCHANGED <<source, options, comp, par, rt, obs, fmt>>

ReadIdentifierOrKeyword ==
  /\ lex.pc = "scan" /\ (IsLetter(Char) \/ Char = "_")
  /\ LET position == SkipWhile(Here, Letter \cup Digit \cup {"_"})
         value == Substring(Here, position)
     IN lex' = Scanned(position,
                       <<IF value \in DOMAIN KEYWORDS THEN KEYWORDS[value]
                         ELSE "IDENTIFIER">>, <<>>)
  /\ UNCHANGED <<source, options, comp, par, rt, obs, fmt>>

ReadNumber ==
  /\ lex.pc = "scan" /\ IsDigit(Char)
  /\ LET i == SkipWhile(Here, Digit)
     IN lex' = Scanned(IF InputAt(i) = "." THEN SkipWhile(i + 1, Digit)
                       ELSE i, <<"NUMBER">>, <<>>)
  /\ UNCHANGED <<source, options, comp, par, rt, obs, fmt>>

ReadString ==
  /\ lex.pc = "scan" /\ IsQuote(Char)
  /\ LET s == StringEnd(Here + 1, Char, FALSE)
     IN lex' = IF s.closed THEN Scanned(s.position, <<"STRING">>, <<>>)
               ELSE Scanned(s.position, <<>>, <<"Unterminated string">>)
  /\ UNCHANGED <<source, options, comp, par, rt, obs, fmt>>

ReadOperator ==
  /\ lex.pc = "scan" /\ Char \in DOMAIN Operators
  /\ LET twoChar == Char \o InputAt(Here + 1)
     IN lex' = IF twoChar \in DOMAIN Operators
                 THEN Scanned(Here + 2, <<Operators[twoChar]>>, <<>>)
                 ELSE Scanned(Here + 1, <<Operators[Char]>>, <<>>)
  /\ UNCHANGED <<source, options, comp, par, rt, obs, fmt>>

\* errors.push(Illegal character); advance()
IllegalCharacter ==
  /\ lex.pc = "scan" /\ Here <= Len(lex.input)
  /\ Char \notin {"\n", "#", "_"} /\ ~IsLetter(Char) /\ ~IsDigit(Char)
  /\ ~IsQuote(Char) /\ Char \notin DOMAIN Operators
  /\ lex' = Scanned(Here + 1, <<>>, <<"Illegal character">>)
  /\ UNCHANGED <<source, options, comp, par, rt, obs, fmt>>

\* the input is used up: the closing DEDENTs, then EOF
EndOfInput ==
  /\ lex.pc = "scan" /\ Here > Len(lex.input)
  /\ lex' = [Scanned(Here, ClosingDedents(lex.indentStack) \o <<"EOF">>,
                     <<>>)
               EXCEPT !.pc = "done",
                      !.indentStack = SubSeq(lex.indentStack, 1, 1)]
  /\ UNCHANGED <<source, options, comp, par, rt, obs, fmt>>

LexInit ==
  /\ Quiet
  /\ fmt = NoFormatter
  /\ par = NoParser
  /\ lex \in {NewLexer(input) : input \in SeqsUpTo(Chars, MaxInput)}
LexNext ==
  \/ HandleNewline \/ SkipComment \/ ReadIdentifierOrKeyword \/ ReadNumber
  \/ ReadString \/ ReadOperator \/ IllegalCharacter \/ EndOfInput
LexSpec == LexInit /\ [][LexNext]_vars

\* ============================================================ lexer claims
Count(tokens, type) == Len(SelectSeq(tokens, LAMBDA t : t = type))
Depth(tokens) == Count(tokens, "INDENT") - Count(tokens, "DEDENT")
StrictlyIncreasing(s) ==
  \A i \in 1..Len(s) - 1 : s[i] < s[i + 1]

\* C12: tokenize terminates on every input with a well-formed structural
\* stream: no prefix of the tokens has more DEDENTs than INDENTs, the whole
\* list has as many of each, EOF is the last token and the only EOF; during
\* the scan the indentation stack is strictly increasing from 0 with one
\* level per open INDENT, and every iteration moves the position forward.
C12_WellFormedStream ==
  /\ [](/\ \A n \in 0..Len(lex.tokens) :
             Depth(SubSeq(lex.tokens, 1, n)) >= 0
        /\ lex.indentStack[1] = 0
        /\ StrictlyIncreasing(lex.indentStack)
        /\ lex.pc = "scan"
             => /\ Depth(lex.tokens) = Len(lex.indentStack) - 1
                /\ Count(lex.tokens, "EOF") = 0
        /\ lex.pc = "done"
             => /\ Depth(lex.tokens) = 0
                /\ lex.tokens[Len(lex.tokens)] = "EOF"
                /\ Count(lex.tokens, "EOF") = 1)
  /\ [][lex'.pc = "done" \/ lex'.position > lex.position]_vars
C12_Witness ==
  /\ lex.pc = "done"
  /\ Count(lex.tokens, "INDENT") = 1
  /\ lex.errors # <<>>

\* C13: when a line is indented less than the top of the stack and, after
\* the pops, the top is not the width of the line, handleNewline records an
\* inconsistent indentation error and the scan goes on to the final EOF;
\* when the top after the pops is the width, it records no error.
C13_InconsistentIndentation ==
  /\ [][(lex'.last.op = "newline"
           /\ lex'.last.indentLevel < lex'.last.currentIndent)
        => /\ lex'.pc = "scan"
           /\ lex'.tokens # lex.tokens \o <<"NEWLINE">>
           /\ IF lex'.indentStack[Len(lex'.indentStack)]
                   # lex'.last.indentLevel
                THEN lex'.errors
                       = Append(lex.errors,
                                "Indentation error: inconsistent indentation")
                ELSE lex'.errors = lex.errors]_vars
  /\ [](lex.pc = "done" => lex.tokens[Len(lex.tokens)] = "EOF")
C13_Witness ==
  /\ lex.pc = "done"
  /\ Has(lex.errors, "Indentation error: inconsistent indentation")
  /\ lex.tokens[Len(lex.tokens)] = "EOF"

\* =========================================================== parser claims
\* The component, space and style keywords among the words of a source.
DeclarationKeywords(decls) ==
  Len(SelectSeq(Words(decls),
                LAMBDA w : w \in {"component", "space", "style"}))

\* C14: parsing the tokens of a valid source with a declaration yields a Program, not null,
\* with as many top-level declarations (components, spaces and styles) as
\* the source has component, space and style keywords.
C14_DeclarationCount ==
  (par.pc = "done" /\ par.source # <<>>
     /\ \A i \in 1..Len(par.source) : par.source[i].valid)
    => /\ par.ast # NoAst
       /\ Len(par.ast[1].components) + Len(par.ast[1].spaces)
            + Len(par.ast[1].styles) = DeclarationKeywords(par.source)

\* The node an element's block must hold when it begins with the word.
BlockNode == [when |-> "CONDITIONAL", each |-> "LOOP", slot |-> "SLOT"]
\* The source is one component whose one element has a block that begins
\* with when, each or slot: component C : tag : when ...
BeginsBlock(decls) ==
  /\ Len(decls) = 1
  /\ Len(decls[1].words) >= 6
  /\ decls[1].words[1] = "component"
  /\ decls[1].words[5] = ":"
  /\ decls[1].words[6] \in DOMAIN BlockNode

\* C16: when the block of an element begins with when, each or slot, the
\* parser, fed the Lexer's tokens, puts a Conditional, a Loop or a Slot among
\* the children of the element, and leaves no token of the construct outside
\* the element: the component has that one element and no error is reported.
C16_BlockDispatch ==
  (par.pc = "done" /\ BeginsBlock(par.source))
    => /\ par.ast # NoAst
       /\ par.errors = 0
       /\ LET body == par.ast[1].components[1].body
          IN /\ Len(body) = 1
             /\ \E i \in 1..Len(body[1].children) :
                  body[1].children[i].type
                    = BlockNode[par.source[1].words[6]]

\* ============================================================= expressions
\* parseExpression over the tokens of an expression without parentheses:
\* operands a, b, c, ... with an operator between each two of them, every :
\* after a ? of its own, and at most one operand written !w.x, with a unary
\* operator in front and a member access behind.
MaxOps == 4    \* operators between the operands of an expression

OperandWords == <<"a", "b", "c", "d", "e", "f">>
OperatorWords == {"||", "&&", "==", "<", "+", "*", "?", ":"}
\* The ? of ops that have no : yet, or -1 when a : has no ? before it.
RECURSIVE Open(_)
Open(ops) ==
  IF ops = <<>> THEN 0
  ELSE LET before == Open(SubSeq(ops, 1, Len(ops) - 1))
       IN IF before < 0 THEN -1
          ELSE IF ops[Len(ops)] = "?" THEN before + 1
          ELSE IF ops[Len(ops)] = ":" THEN before - 1
          ELSE before
\* the words of operand i
Decorated(i, marked) ==
  IF i # marked THEN <<OperandWords[i]>>
  ELSE <<"!", OperandWords[i], ".", "x">>
RECURSIVE ExpressionWords(_, _)
ExpressionWords(ops, marked) ==
  IF ops = <<>> THEN Decorated(1, marked)
  ELSE ExpressionWords(SubSeq(ops, 1, Len(ops) - 1), marked)
         \o <<ops[Len(ops)]>> \o Decorated(Len(ops) + 1, marked)
\* A Parser over the tokens of the expression; node is what parseExpression
\* returned and dependencies what extractDependencies made of it.
NewExpressionParser(words) ==
  [pc |-> "expression", words |-> words, tokens |-> TokensOf(words),
   current |-> 1, errors |-> 0, node |-> <<>>, dependencies |-> <<>>]

\* parseComputed, after the = : const expression = this.parseExpression();
\* const dependencies = this.extractDependencies(expression)
ExpressionParsed ==
  /\ par.pc = "expression"
  /\ LET r == Bind(ParseExpression(P), LAMBDA x : x)
     IN par' = [par EXCEPT !.pc = "parsed", !.current = r.p.current,
                           !.errors = r.p.errors, !.node = r.node,
                           !.dependencies = ExtractDependencies(r.node)]
  /\ UNCHANGED <<source, options, comp, lex, rt, obs, fmt>>

ExprInit ==
  /\ Quiet
  /\ fmt = NoFormatter
  /\ lex = NoLexer
  /\ \E ops \in SeqsUpTo(OperatorWords, MaxOps) :
       /\ Open(ops) = 0
       /\ \E marked \in 0..Len(ops) + 1 :
            par = NewExpressionParser(ExpressionWords(ops, marked))
ExprNext == ExpressionParsed
ExprSpec == ExprInit /\ [][ExprNext]_vars

\* ------------------------------------------------------- expression claims
\* The level of the grammar that produces a node: ternary 0, the binary
\* levels 1 to 6 by operator, unary 7, postfix 8, primary 9.
BinaryLevel ==
  ("||" :> 1) @@ ("&&" :> 2) @@ ("==" :> 3) @@ ("!=" :> 3) @@ ("<" :> 4)
    @@ (">" :> 4) @@ ("<=" :> 4) @@ (">=" :> 4) @@ ("+" :> 5) @@ ("-" :> 5)
    @@ ("*" :> 6) @@ ("/" :> 6)
Level(node) ==
  CASE node.type = "ConditionalExpression" -> 0
    [] node.type = "BinaryExpression" -> BinaryLevel[node.operator]
    [] node.type = "UnaryExpression" -> 7
    [] node.type \in {"MemberExpression", "CallExpression"} -> 8
    [] OTHER -> 9
\* The words of the expression a tree stands for, from left to right.
RECURSIVE Yield(_)
Yield(node) ==
  CASE node.type = "ConditionalExpression" ->
         Yield(node.args[1]) \o <<"?">> \o Yield(node.args[2]) \o <<":">>
           \o Yield(node.args[3])
    [] node.type = "BinaryExpression" ->
         Yield(node.args[1]) \o <<node.operator>> \o Yield(node.args[2])
    [] node.type = "UnaryExpression" ->
         <<node.operator>> \o Yield(node.args[1])
    [] node.type = "MemberExpression" ->
         Yield(node.args[1]) \o <<".">> \o Yield(node.args[2])
    [] OTHER -> <<node.operator>>
\* Every operator has operands of the levels its place in the order allows:
\* nothing looser on the left of a binary operator and only tighter on its
\* right, only tighter as the test of a ternary, anything as its branches.
RECURSIVE Nested(_)
Nested(node) ==
  /\ \A i \in 1..Len(node.args) : Nested(node.args[i])
  /\ CASE node.type = "ConditionalExpression" -> Level(node.args[1]) > 0
       [] node.type = "BinaryExpression" ->
            /\ Level(node.args[1]) >= Level(node)
            /\ Level(node.args[2]) > Level(node)
       [] node.type = "UnaryExpression" -> Level(node.args[1]) >= 7
       [] node.type = "MemberExpression" -> Level(node.args[1]) >= 8
       [] OTHER -> TRUE
Identifier(name) == Expr("Identifier", name, <<>>)
Binary(operator, left, right) ==
  Expr("BinaryExpression", operator, <<left, right>>)
Ternary(test, consequent, alternate) ==
  Expr("ConditionalExpression", "?", <<test, consequent, alternate>>)

\* C15: an expression that parseExpression accepts whole is parsed into the
\* tree of its words in which every operator of a higher level binds tighter
\* than one of a lower level, operators of one binary level associate to the
\* left and a ternary as alternate nests to the right: a + b * c gives
\* +(a, *(b, c)) and a ? b : c ? d : e gives ?(a, b, ?(c, d, e)).
C15_Precedence ==
  (par.pc = "parsed" /\ par.errors = 0 /\ IsAtEnd(P))
    => /\ Yield(par.node) = par.words
       /\ Nested(par.node)
       /\ par.words = <<"a", "+", "b", "*", "c">>
            => par.node = Binary("+", Identifier("a"),
                                 Binary("*", Identifier("b"),
                                        Identifier("c")))
C15_Witness ==
  /\ par.pc = "parsed"
  /\ par.words = <<"a", "?", "b", ":", "c", "?", "d", ":", "e">>
  /\ par.node = Ternary(Identifier("a"), Identifier("b"),
                        Ternary(Identifier("c"), Identifier("d"),
                                Identifier("e")))

\* The identifiers of an expression tree: every Identifier node but the
\* property name behind a dot.
RECURSIVE Identifiers(_)
Identifiers(node) ==
  CASE node.type = "Identifier" -> {node.operator}
    [] node.type = "MemberExpression" /\ node.operator = "." ->
         Identifiers(node.args[1])
    [] OTHER -> UNION {Identifiers(node.args[i]) : i \in 1..Len(node.args)}

\* C29: the dependency list of a computed declaration holds the identifiers
\* that occur anywhere in its expression (operands of binary, unary and
\* ternary operators, objects of member accesses, ...), each of them once.
C29_AllIdentifiers ==
  (par.pc = "parsed" /\ par.errors = 0 /\ IsAtEnd(P))
    => /\ {par.dependencies[i] : i \in 1..Len(par.dependencies)}
            = Identifiers(par.node)
       /\ Cardinality(Identifiers(par.node)) = Len(par.dependencies)

\* ==================================================== analyzer claims
\* The declarations of names whose name is declared before them in names.
Redeclared(names) ==
  Cardinality({i \in 1..Len(names) : \E j \in 1..i - 1 : names[j] = names[i]})
RECURSIVE RedeclaredIn(_)
RedeclaredIn(scopes) ==
  IF scopes = <<>> THEN 0
  ELSE Redeclared(DeclaredNames(Head(scopes))) + RedeclaredIn(Tail(scopes))
Reported(messages, wanted) ==
  Len(SelectSeq(messages, LAMBDA m : m \in wanted))

\* C17: analyze reports one error for every state or computed declaration
\* whose name is declared earlier in the same component or space, and none
\* for a name that is declared again in another component or space.
C17_DuplicatesPerScope ==
  "semantic" \in comp.ran
    => Reported(comp.errors, {"Duplicate state declaration",
                              "Duplicate computed declaration"})
         = RedeclaredIn(source.program.components)
             + RedeclaredIn(source.program.spaces)

\* An element with an interactive tag occurs in nodes at any depth: in the
\* children of an element, in a branch of a conditional, in a loop body.
RECURSIVE InteractiveAtAnyDepth(_)
InteractiveAtAnyDepth(nodes) ==
  \E i \in 1..Len(nodes) :
    \/ nodes[i].type = "ELEMENT" /\ nodes[i].tag \in InteractiveTags
    \/ InteractiveAtAnyDepth(nodes[i].children)
    \/ InteractiveAtAnyDepth(nodes[i].consequent)
    \/ InteractiveAtAnyDepth(nodes[i].alternate)
    \/ InteractiveAtAnyDepth(nodes[i].body)

\* C18: analyze warns of interactive elements but no role once for every
\* component that declares no role and has an element with an interactive
\* tag at any depth of its render tree, and for no other component.
C18_RoleWarning ==
  "semantic" \in comp.ran
    => Reported(comp.warnings, {"no role defined"})
         = Cardinality({i \in 1..Len(source.program.components) :
             LET c == source.program.components[i]
             IN ~c.accessibility.role /\ InteractiveAtAnyDepth(c.body)})

\* The buttons in nodes, at any depth, that have neither a Text child nor an
\* aria-label attribute.
RECURSIVE BareButtons(_)
BareButtons(nodes) ==
  IF nodes = <<>> THEN 0
  ELSE LET n == Head(nodes)
       IN (IF /\ n.type = "ELEMENT" /\ n.tag = "button"
              /\ ~\E i \in 1..Len(n.children) : n.children[i].type = "TEXT"
              /\ ~Has(n.attributes, "aria-label")
             THEN 1 ELSE 0)
          + BareButtons(n.children) + BareButtons(n.consequent)
          + BareButtons(n.alternate) + BareButtons(n.body)
          + BareButtons(Tail(nodes))
RECURSIVE BareButtonsIn(_)
BareButtonsIn(components) ==
  IF components = <<>> THEN 0
  ELSE BareButtons(Head(components).body) + BareButtonsIn(Tail(components))

\* C19: analyze warns of a button without text content or aria-label once
\* for every button that has no Text child and no aria-label attribute, and
\* for no button that has an aria-label attribute.
C19_ButtonWarning ==
  "semantic" \in comp.ran
    => Reported(comp.warnings, {"Button without text content"})
         = BareButtonsIn(source.program.components)

\* ==================================================== generator claims
\* The parameters of the runtime entry points: createSignal(initialValue),
\* createComputed(fn), createEffect(fn), animate(element, config).
Parameters ==
  [createSignal |-> <<"value">>, createComputed |-> <<"function">>,
   createEffect |-> <<"function">>, animate |-> <<"element", "object">>]
Accepts(parameter, argument) == parameter = "value" \/ parameter = argument

\* C20: every call of the runtime in the generated code passes one argument
\* per parameter of the entry point, each of the shape the parameter takes.
C20_CallShapes ==
  "codegen" \in comp.ran
    => \A i \in 1..Len(comp.code) :
         comp.code[i].emit = "call"
           => LET parameters == Parameters[comp.code[i].callee]
                  args == comp.code[i].args
              IN /\ Len(args) = Len(parameters)
                 /\ \A k \in 1..Len(args) : Accepts(parameters[k], args[k])

\* ===================================================== claims: effect life
Frames(e) == {i \in 1..Len(stack) : stack[i].k = "effect" /\ stack[i].e = e}
Starts(e, cause) ==
  /\ Len(stack') = Len(stack) + 1
  /\ stack'[Len(stack')].k = "effect"
  /\ stack'[Len(stack')].e = e
  /\ stack'[Len(stack')].cause = cause
Completed(e) == e \in created /\ ~isRunning[e] /\ e \notin disposed

\* C23: the dependencies of an effect are rebuilt by every run.  After a
\* run has ended, the dependency set of the effect is the set of signals the
\* body read with tracking in that run and the effect is a subscriber of
\* exactly those signals; a write to a signal starts only effects whose
\* latest run read it, so eD, which reads b only while a is 0, is not run
\* by a write to b once it has run with a = 1.
C23_DependenciesRebuilt ==
  /\ [](\A e \in Effects :
          Completed(e)
            => /\ deps[e] = tracked[e]
               /\ \A s \in Signals : Subscribed(e, s) <=> s \in tracked[e])
  /\ [][\A e \in Effects : Starts(e, "notify") => Top.s \in tracked[e]]_vars
C23_Witness ==
  /\ Completed("eD") /\ tracked["eD"] = {"a"} /\ val["a"] = 1
  /\ Top.k = "notify" /\ Top.s = "b" /\ Top.idx >= Len(subs["b"])
  /\ lastOp.op = "set" /\ runs["eD"] = 0

\* C24: every effect that is pending when the outermost batch exits has its
\* body run exactly once by that batch, also when the body of one pending
\* effect writes a signal another pending effect subscribes to: while the
\* flush of a batch called from the top level goes on no effect of its
\* snapshot has run twice, and when it is over each has run once.
C24_FlushRunsOnce ==
  (call.op = "batch" /\ ~call.threw /\ Len(stack) >= 2
     /\ stack[2].k = "flush")
    => \A i \in 1..Len(stack[2].effs) :
         /\ runs[stack[2].effs[i]] <= 1
         /\ (Len(stack) = 2 /\ Top.idx >= Len(Top.effs)
               => runs[stack[2].effs[i]] = 1)

C26_EdgesSymmetric ==
  \A e \in Effects : \A s \in Signals : Subscribed(e, s) <=> s \in deps[e]
C26_Witness ==
  /\ lastOp.op = "stop" /\ lastOp.s = "eAB" /\ batchDepth = 1
  /\ Subscribed("cEff", "a") /\ ~Subscribed("eAB", "a")
  /\ deps["eAB"] = {} /\ deps["cEff"] = {"a", "b"}

\* C27: once the disposer createEffect returned has been called, at the top
\* level, inside a batch in which the effect is pending, or from the body
\* of the effect itself, the effect is in no subscriber set and no
\* execution of its body starts any more.
C27_DisposedStaysOut ==
  /\ [](\A e \in disposed : \A s \in Signals : ~Subscribed(e, s))
  /\ [][\A e \in disposed : ~(Starts(e, "notify") \/ Starts(e, "flush"))]_vars

\* C28: every set() of a changed value outside a batch returns: the call
\* the script made gets back to the top level.
C28_SetReturns == (call.op = "set" /\ ~AtTopLevel) ~> AtTopLevel

\* C30: a cleanup closure returned by a run of an effect is called once,
\* before the body of the next run or at disposal, and never a second time.
C30_CleanupOnce == \A e \in Effects : invoked[e] <= 1

\* ====================================================== parse and generate
\* Compiler.compile with the analyzer off (options.strict is false): the
\* Program parse returns, if there is one and no error has been recorded,
\* goes to CodeGenerator.generate.
GenerateParsed ==
  /\ par.pc = "done" /\ comp.pc = "idle"
  /\ ~ParseStops(par.ast, Many(par.errors, "parser"))
  /\ comp' = [comp EXCEPT !.pc = "done", !.code = Generate(par.ast[1]),
                          !.ran = {"lexer", "parser", "codegen"}]
  /\ UNCHANGED <<source, options, lex, par, rt, obs, fmt>>

BuildNext == ParseNext \/ GenerateParsed
BuildSpec == ParseInit /\ [][BuildNext]_vars

\* The kinds of the declarations of a source, and of the top-level blocks
\* of the generated code, in their order.
DeclaredKinds(decls) == [i \in 1..Len(decls) |-> decls[i].words[1]]
EmittedKinds(code) ==
  LET blocks == SelectSeq(code, LAMBDA l :
                            l.emit \in {"component", "space", "styles"})
  IN [i \in 1..Len(blocks) |->
        IF blocks[i].emit = "styles" THEN "style" ELSE blocks[i].emit]

\* C21: for a source that parses without error into one node per
\* declaration, generate emits one top-level block per component, space and
\* style declaration, in the order the declarations have in the source, also
\* across kinds: a space declared before a component comes before it.
C21_SourceOrder ==
  (comp.pc = "done" /\ par.pc = "done" /\ par.errors = 0
     /\ Len(par.ast[1].components) + Len(par.ast[1].spaces)
          + Len(par.ast[1].styles) = Len(par.source))
    => EmittedKinds(comp.code) = DeclaredKinds(par.source)

\* =============================================================== formatter
\* Formatter.format(source).  A text is taken line by line; a line is its
\* indentation and its words, and ends with a newline.  The formatter works
\* on the tokens the Lexer makes of the text, NEWLINE, INDENT and DEDENT
\* included.
MaxLines == 2    \* lines of the body of a component

TextLine(indent, words) == [indent |-> indent, words |-> words]

\* handleNewline at the end of line k: NEWLINE, then measureIndent on the
\* line that follows (nothing follows the last line: width 0)
RECURSIVE LexLines(_, _, _)
LexLines(text, k, lx) ==
  IF k > Len(text) THEN lx
  ELSE Bind(IF k < Len(text) THEN text[k + 1].indent ELSE 0, LAMBDA level :
       Bind(lx.indentStack[Len(lx.indentStack)], LAMBDA top :
       Bind(IF level > top THEN Append(lx.indentStack, level)
            ELSE IF level < top THEN Popped(lx.indentStack, level)
            ELSE lx.indentStack, LAMBDA newStack :
         LexLines(text, k + 1,
           [tokens |-> lx.tokens
              \o [i \in 1..Len(text[k].words) |-> ReadWord(text[k].words[i])]
              \o <<Token("NEWLINE", "\n")>>
              \o (IF level > top THEN <<Token("INDENT", "")>>
                  ELSE [i \in 1..(Len(lx.indentStack) - Len(newStack)) |->
                          Token("DEDENT", "")]),
            indentStack |-> newStack,
            errors |-> IF level < top
                            /\ Inconsistent(newStack[Len(newStack)], level)
                         THEN lx.errors + 1 ELSE lx.errors]))))
\* tokenize: the lines, the closing DEDENTs, EOF
LexText(text) ==
  Bind(LexLines(text, 1, [tokens |-> <<>>, indentStack |-> <<0>>,
                          errors |-> 0]), LAMBDA lx :
    [tokens |-> lx.tokens
       \o [i \in 1..(Len(lx.indentStack) - 1) |-> Token("DEDENT", "")]
       \o <<Token("EOF", "")>>,
     errors |-> lx.errors])

\* tokens[i], counted from 1; undefined behind the end
At(tokens, i) ==
  IF i <= Len(tokens) THEN tokens[i] ELSE Token("undefined", "")
\* `${token.value}`: an empty value leaves nothing on the line
Shown(t) == IF t.value = "" THEN <<>> ELSE <<t.value>>
\* tokens.map(t => t.value).join(' ') over tokens[from] .. tokens[to - 1]
Joined(tokens, from, to) ==
  Flat([k \in 1..(to - from) |-> Shown(tokens[from + k - 1])])

\* A formatter at token i: this.indent and this.output.
\* emit: indentation of indent * indentSize blanks, indentSize being 2
Emit(f, words) ==
  [f EXCEPT !.output = Append(@, TextLine(f.indent * 2, words))]
IsStatementEnd(t) ==
  t.type \in {"NEWLINE", "EOF", "COMPONENT", "STATE", "COMPUTED", "EFFECT",
              "ON", "ANIMATE", "ROLE", "LABEL"}
\* while (i < tokens.length && !stop(tokens[i])) i++, stop being
\* isStatementEnd or one of the types given
RECURSIVE Skipped(_, _, _)
Skipped(tokens, i, types) ==
  IF i <= Len(tokens) /\ ~IsStatementEnd(tokens[i])
       /\ tokens[i].type \notin types
    THEN Skipped(tokens, i + 1, types) ELSE i

\* formatState and formatComputed
FormatStatement(keyword, tokens, f) ==
  Bind(Skipped(tokens, f.i + 3, {}), LAMBDA end :
    [Emit(f, <<keyword>> \o Shown(At(tokens, f.i + 1)) \o <<"=">>
                \o Joined(tokens, f.i + 3, end))
       EXCEPT !.i = end])
FormatState(tokens, f) == FormatStatement("state", tokens, f)
FormatComputed(tokens, f) == FormatStatement("computed", tokens, f)

\* formatEffect: the identifiers up to the ), joined by commas
RECURSIVE EffectNames(_, _, _)
EffectNames(tokens, i, names) ==
  IF i > Len(tokens) \/ tokens[i].type = "RPAREN" THEN [i |-> i, names |-> names]
  ELSE EffectNames(tokens, i + 1,
                  IF tokens[i].type # "IDENTIFIER" THEN names
                  ELSE IF names = <<>> THEN <<tokens[i].value>>
                  ELSE names \o <<",", tokens[i].value>>)
FormatEffect(tokens, f) ==
  Bind(EffectNames(tokens, f.i + 2, <<>>), LAMBDA d :
    [Emit(f, <<"effect", "(">> \o d.names \o <<")", "=>">>)
       EXCEPT !.i = d.i + 2])

\* formatEventHandler
FormatEventHandler(tokens, f) ==
  Bind(Skipped(tokens, f.i + 3, {}), LAMBDA end :
    [Emit(f, <<"on">> \o Shown(At(tokens, f.i + 1)) \o <<"=>">>
                \o Joined(tokens, f.i + 3, end))
       EXCEPT !.i = end])

\* formatAnimation: the loop over property: value pairs
RECURSIVE AnimationLines(_, _)
AnimationLines(tokens, f) ==
  IF f.i <= Len(tokens) /\ tokens[f.i].type = "IDENTIFIER"
    THEN Bind(Skipped(tokens, f.i + 2, {"COMMA"}), LAMBDA end :
         Bind([Emit(f, <<tokens[f.i].value, ":">>
                         \o Joined(tokens, f.i + 2, end))
                 EXCEPT !.i = end], LAMBDA g :
           IF At(tokens, end).type = "COMMA"
             THEN AnimationLines(tokens, [g EXCEPT !.i = end + 1])
             ELSE g))
    ELSE f
FormatAnimation(tokens, f) ==
  Bind(AnimationLines(tokens,
         [Emit(f, <<"animate">> \o Shown(At(tokens, f.i + 1)) \o <<":">>)
            EXCEPT !.i = f.i + 3, !.indent = @ + 1]), LAMBDA g :
    [g EXCEPT !.indent = @ - 1])

\* formatRole and formatLabel
FormatValue(keyword, tokens, f) ==
  [Emit(f, <<keyword>> \o Shown(At(tokens, f.i + 1))) EXCEPT !.i = f.i + 2]

\* formatElement: the attributes name=value behind the tag
RECURSIVE Attributes(_, _, _)
Attributes(tokens, i, attrs) ==
  IF i <= Len(tokens) /\ tokens[i].type = "IDENTIFIER"
       /\ At(tokens, i + 1).type = "EQUALS"
    THEN Attributes(tokens, i + 3,
                    attrs \o <<tokens[i].value, "=">>
                          \o Shown(At(tokens, i + 2)))
    ELSE [i |-> i, attrs |-> attrs]
RECURSIVE FormatElement(_, _)
RECURSIVE Children(_, _)
\* while (i < tokens.length && tokens[i].type === IDENTIFIER) formatElement
Children(tokens, f) ==
  IF f.i <= Len(tokens) /\ tokens[f.i].type = "IDENTIFIER"
    THEN Bind(FormatElement(tokens, f), LAMBDA g : Children(tokens, g))
    ELSE f
FormatElement(tokens, f) ==
  Bind(Attributes(tokens, f.i + 1, <<>>), LAMBDA a :
  Bind(<<tokens[f.i].value>> \o a.attrs, LAMBDA tag :
    IF At(tokens, a.i).type = "COLON"
      THEN IF At(tokens, a.i + 1).type = "STRING"
             THEN [Emit(f, tag \o <<":">> \o Shown(At(tokens, a.i + 1)))
                     EXCEPT !.i = a.i + 2]
             ELSE Bind(Children(tokens,
                         [Emit(f, tag \o <<":">>)
                            EXCEPT !.i = a.i + 1, !.indent = @ + 1]),
                       LAMBDA g : [g EXCEPT !.indent = @ - 1])
      ELSE [Emit(f, tag) EXCEPT !.i = a.i]))

\* formatComponent: the loop over the body
RECURSIVE ComponentBody(_, _)
ComponentBody(tokens, f) ==
  IF f.i > Len(tokens) \/ tokens[f.i].type \in {"COMPONENT", "EOF"} THEN f
  ELSE Bind(tokens[f.i].type, LAMBDA type :
       Bind(CASE type = "STATE" -> FormatState(tokens, f)
              [] type = "COMPUTED" -> FormatComputed(tokens, f)
              [] type = "EFFECT" -> FormatEffect(tokens, f)
              [] type = "ON" -> FormatEventHandler(tokens, f)
              [] type = "ANIMATE" -> FormatAnimation(tokens, f)
              [] type = "ROLE" -> FormatValue("role", tokens, f)
              [] type = "LABEL" -> FormatValue("label", tokens, f)
              [] type = "IDENTIFIER" -> FormatElement(tokens, f)
              [] OTHER -> [f EXCEPT !.i = @ + 1],
            LAMBDA g : ComponentBody(tokens, g)))
FormatComponent(tokens, f) ==
  Bind(ComponentBody(tokens,
         [Emit(f, <<"component">> \o Shown(At(tokens, f.i + 1)) \o <<":">>)
            EXCEPT !.i = f.i + 2, !.indent = @ + 1]), LAMBDA g :
    Emit([g EXCEPT !.indent = @ - 1], <<>>))

\* format: the loop over the tokens
RECURSIVE FormatLoop(_, _)
FormatLoop(tokens, f) ==
  IF f.i > Len(tokens) \/ tokens[f.i].type = "EOF" THEN f
  ELSE IF tokens[f.i].type = "COMPONENT"
    THEN Bind(FormatComponent(tokens, f), LAMBDA g : FormatLoop(tokens, g))
  ELSE FormatLoop(tokens, [f EXCEPT !.i = @ + 1])
\* output.join('\n'), with a newline added unless the result ends with one:
\* the last entry of output, if it is the empty string, gives that newline
Result(output) ==
  IF output = <<>> THEN <<TextLine(0, <<>>)>>
  ELSE IF output[Len(output)] = TextLine(0, <<>>)
    THEN SubSeq(output, 1, Len(output) - 1)
  ELSE output
Format(text) ==
  Bind(LexText(text), LAMBDA lexed :
    IF lexed.errors > 0 THEN text
    ELSE Result(FormatLoop(lexed.tokens,
                        [i |-> 1, indent |-> 0, output |-> <<>>]).output))

\* ---------------------------------------------------------------- sources
\* A component and the lines of its body.
BodyLines ==
  { TextLine(2, <<"state", "x", "=", "1">>),
    TextLine(2, <<"state", "x", "=", "'s'">>),
    TextLine(2, <<"computed", "y", "=", "x", "+", "1">>),
    TextLine(2, <<"effect", "(", "x", ",", "y", ")", "=>">>),
    TextLine(2, <<"on", "click", "=>", "f", "(", ")">>),
    TextLine(2, <<"role", "'s'">>),
    TextLine(2, <<"div", "class", "=", "'s'">>),
    TextLine(2, <<"div", ":", "'s'">>),
    TextLine(2, <<"div", ":">>),
    TextLine(4, <<"p">>),
    TextLine(0, <<>>) }
Texts ==
  {<<TextLine(0, <<"component", "C", ":">>)>> \o body :
     body \in SeqsUpTo(BodyLines, MaxLines)}

\* formatter.format(source), and format again on what it returned
FormatSource ==
  /\ fmt.pc = "new"
  /\ fmt' = [fmt EXCEPT !.pc = "once", !.first = Format(fmt.source)]
  /\ UNCHANGED <<source, options, comp, lex, par, rt, obs>>
FormatAgain ==
  /\ fmt.pc = "once"
  /\ fmt' = [fmt EXCEPT !.pc = "twice", !.second = Format(fmt.first)]
  /\ UNCHANGED <<source, options, comp, lex, par, rt, obs>>

FormatInit ==
  /\ Quiet
  /\ lex = NoLexer
  /\ par = NoParser
  /\ \E text \in Texts :
       fmt = [pc |-> "new", source |-> text, first |-> <<>>, second |-> <<>>]
FormatNext == FormatSource \/ FormatAgain
FormatSpec == FormatInit /\ [][FormatNext]_vars

\* C22: format is idempotent on every source that lexes without error:
\* formatting what format returned gives the same text again, also for a
\* state with a string literal as its value and for an element whose one
\* child is a string literal.
C22_Idempotent ==
  (fmt.pc = "twice" /\ LexText(fmt.source).errors = 0)
    => fmt.second = fmt.first

====
